---- MODULE Spec2Model ----
(***************************************************************************)
(* KinectFilter: the frame mailbox between the libfreenect driver thread   *)
(* and the GLUT render thread, and the OpenCL filter pipeline the render   *)
(* thread drives, for the five example programs of the repository:         *)
(*   v1    kinectFilter.cpp                       (C API, Laplacian only)   *)
(*   clc   kinectFilter_clc.cpp                   (C API, LoG)              *)
(*   clcpp kinectFilter_clc++.cpp                 (C++ API, LoG)            *)
(*   tex   kinectFilter_gl_interop_texture.cpp    (C++ API, CL-GL texture)  *)
(*   vbo   kinectFilter_gl_interop_vertex_buffer.cpp (C++ API, CL-GL VBO)   *)
(* A frame is FrameLen cells, each holding the number of the publish that  *)
(* wrote it; an image on the host or the device is a record of its cells   *)
(* and of the passes applied to it.                                        *)
(***************************************************************************)
EXTENDS Integers, Sequences, FiniteSets, TLC

\* ---------------------------------------------------------------- bounds
MaxPublish == 2     \* callbacks the driver delivers per stream
MaxToggles == 2     \* 'F' / 'C' key presses handled by keyPressed
FrameLen == 2       \* cells of one frame (std::copy is not atomic)

Variants == {"v1", "clc", "clcpp", "tex", "vbo"}
AllStreams == {"rgb", "depth"}
Streams(v) == IF v = "vbo" THEN {"rgb", "depth"} ELSE {"rgb"}
Interop(v) == v \in {"tex", "vbo"}
CApi(v) == v \in {"v1", "clc"}
VideoFilter(v) == v \in {"v1", "clc", "clcpp", "tex"}

VARIABLES
    variant,    \* which of the five programs runs
    env,        \* what the machine offers: platform, gpu, sharing, kernels
    pc,         \* position of the main (render) thread
    bootIdx,    \* next step of main() before glutMainLoop
    devices,    \* devices[0] of the Filter: "none", "gpu", "garbage"
    created,    \* resources created so far, in creation order
    streaming,  \* streams started with startVideo / startDepth
    mem,        \* host memory blocks: [px, hist]
    mbox,       \* block owned by rgbBuffer / depthBuffer
    obuf,       \* block owned by the consumer's vector (image, rgb, depth)
    fresh,      \* newRGBFrame / newDepthFrame
    mutex,      \* rgbMutex / depthMutex: "free", "driver", "render"
    ppc,        \* position of the driver thread inside a callback
    pstream,    \* stream of the callback in progress
    pidx,       \* next cell std::copy writes
    pubCount,   \* callbacks started per stream (the frame number)
    tstream,    \* stream the render thread is taking
    gray,       \* cv::Mat gray of getRGB / updateRGB
    overrun,    \* std::copy (.., gray.dataend + 1, ..) has run
    smoothed,   \* Filter::smoothed
    rgb_norm,   \* Filter::rgb_norm
    toggles,    \* key presses handled so far
    kargs,      \* kernel argument bindings
    ip,         \* next instruction of convolve / processFrames
    queue,      \* the in-order command queue
    dev,        \* device memory objects: [px, hist]
    acquired,   \* the compute side owns the GL-shared objects
    glDone,     \* glFinish () has run in the current call
    log,        \* operations submitted by the current call
    exitCause,  \* why the process terminated
    atLock,     \* history: publishes completed when the take locked
    taken,      \* history: successful takes per stream
    delivered,  \* history: cells handed out by the last successful take
    dlvAtLock,  \* history: atLock of the last successful take
    lastRet,    \* history: result of the last take per stream
    toggleRet,  \* value returned by the last toggle call, "none" before
    krun        \* one frame taken through the kernels: input, stage, results

vars == << variant, env, pc, bootIdx, devices, created, streaming, mem, mbox,
           obuf, fresh, mutex, ppc, pstream, pidx, pubCount, tstream, gray,
           overrun, smoothed, rgb_norm, toggles, kargs, ip, queue, dev,
           acquired, glDone, log, exitCause, atLock, taken, delivered,
           dlvAtLock, lastRet, toggleRet, krun >>

\* ------------------------------------------------------------ data values
Blank == [px |-> [i \in 1..FrameLen |-> 0], hist |-> << >>]
Garbage == [px |-> [i \in 1..FrameLen |-> 0], hist |-> << "uninit" >>]
Pass(img, tag) == [px |-> img.px, hist |-> Append(img.hist, tag)]

\* publishes of stream s that have returned (one callback runs at a time)
Published(s) ==
    IF ppc # "idle" /\ pstream = s THEN pubCount[s] - 1 ELSE pubCount[s]

Alive == pc # "terminated"

\* a callback that forgets to raise the flag
SetFlagForgotten(f, s) == f

\* newRGBFrame = true; / newDepthFrame = true;
SetFlag(f, s) == [f EXCEPT ![s] = TRUE]

\* a take that forgets to lower the flag
ClearFlagForgotten(f, s) == f

\* a getter that clears the flag of every mailbox
ClearEveryFlag(f, s) == [t \in AllStreams |-> FALSE]

\* newRGBFrame = false; / newDepthFrame = false;
ClearFlag(f, s) == [f EXCEPT ![s] = FALSE]

\* a lock that never makes its caller wait
LockFreeAlways(s) == TRUE

\* Mutex::lock (): pthread_mutex_lock returns once no thread holds the mutex
LockFree(s) == mutex[s] = "free"

\* a guard whose destructor leaves the mutex locked
UnlockForgotten(m, s) == m

\* ~ScopedLock (): Mutex::unlock ()
Unlock(m, s) == [m EXCEPT ![s] = "free"]

\* ----------------------------------------------------------- main (), boot
\* Filter::Filter, one step per call of the constructor body
FilterCtor_v1 ==
    << "getPlatform", "getDevices", "context", "queue", "sampler",
       "bufferSourceImage", "bufferOutputImage", "bufferFilter",
       "writeFilter", "readSource", "program", "build", "kernel_conv",
       "setArgs", "ctorReturn" >>

FilterCtor_clc ==
    << "getPlatform", "getDevices", "context", "queue", "sampler",
       "bufferSourceImage", "bufferInterImage1", "bufferInterImage2",
       "bufferOutputImage", "bufferBoxFilter", "bufferLaplacianFilter",
       "writeBoxFilter", "writeLaplacianFilter", "readSource", "program",
       "build", "kernelConv", "setArgs", "ctorReturn" >>

FilterCtor_clcpp == FilterCtor_clc

FilterCtor_tex ==
    << "getPlatform", "getGLDevice", "checkCLGLInterop", "context",
       "initGLObjects", "queue", "sampler", "bufferSourceImage",
       "bufferInterImage1", "bufferInterImage2", "bufferOutputImage",
       "bufferBoxFilter", "bufferLaplacianFilter", "writeBoxFilter",
       "writeLaplacianFilter", "readSource", "program", "build",
       "kernelNorm", "kernelConv", "setArgs", "ctorReturn" >>

\* a constructor that looks for cl_khr_gl_sharing after it built the context
FilterCtor_vbo_LateCheck ==
    << "getPlatform", "getDevices", "context", "initGLObjects", "queue",
       "bufferSourceRGB", "bufferInterRGBA", "bufferGLShared0",
       "checkCLGLInterop", "bufferSourceDepth", "bufferGLShared1",
       "readSource", "program", "build", "kernelRGBA", "kernelRGBNorm",
       "kernelDepthTo3D", "setArgs", "ctorReturn" >>

FilterCtor_vbo ==
    << "getPlatform", "getDevices", "checkCLGLInterop", "context",
       "initGLObjects", "queue", "bufferSourceRGB", "bufferInterRGBA",
       "bufferGLShared0", "bufferSourceDepth", "bufferGLShared1",
       "readSource", "program", "build", "kernelRGBA", "kernelRGBNorm",
       "kernelDepthTo3D", "setArgs", "ctorReturn" >>

\* a main () that constructs the Filter first in every program
BootSteps_CtorFirst(v) ==
    CASE v = "v1" -> FilterCtor_v1 \o << "startVideo", "initGL", "glutMainLoop" >>
      [] v = "clc" -> FilterCtor_clc \o << "startVideo", "initGL", "glutMainLoop" >>
      [] v = "clcpp" -> FilterCtor_clcpp \o << "startVideo", "initGL", "glutMainLoop" >>
      [] v = "tex" -> FilterCtor_tex \o << "startVideo", "initGL", "glutMainLoop" >>
      [] v = "vbo" -> FilterCtor_vbo \o << "startVideo", "startDepth", "initGL",
                                          "glutMainLoop" >>

\* main (): the calls made before the render loop runs
BootSteps(v) ==
    CASE v = "v1" -> FilterCtor_v1 \o << "startVideo", "initGL", "glutMainLoop" >>
      [] v = "clc" -> FilterCtor_clc \o << "startVideo", "initGL", "glutMainLoop" >>
      [] v = "clcpp" -> FilterCtor_clcpp \o << "startVideo", "initGL", "glutMainLoop" >>
      [] v = "tex" -> << "startVideo", "initGL" >> \o FilterCtor_tex \o << "glutMainLoop" >>
      [] v = "vbo" -> << "startVideo", "startDepth", "initGL" >> \o FilterCtor_vbo
                        \o << "glutMainLoop" >>

\* steps that create a resource the destructor or the process owns
Creates(step) ==
    step \notin {"getPlatform", "getDevices", "getGLDevice", "checkCLGLInterop",
                 "writeFilter", "writeBoxFilter", "writeLaplacianFilter",
                 "readSource", "build", "setArgs", "ctorReturn", "startVideo",
                 "startDepth", "glutMainLoop"}

\* the constructor's local coefficient arrays exist while it runs
CtorRunning ==
    /\ pc = "boot"
    /\ \E i \in 1..Len(BootSteps(variant)) :
          /\ BootSteps(variant)[i] = "ctorReturn"
          /\ bootIdx <= i
    /\ \E i \in 1..Len(BootSteps(variant)) :
          /\ BootSteps(variant)[i] = "getPlatform"
          /\ bootIdx >= i

NoArgs == [src |-> "unset", out |-> "unset", flt |-> "unset"]

Kernels == {"kernelConv", "kernelNorm", "kernelRGBA", "kernelRGBNorm",
            "kernelDepthTo3D"}

\* the member a name designates: cl::Image2D (bufferInterImage1) copies the
\* handle, so in tex both members are one memory object
Handle(v, member) ==
    IF v = "tex" /\ member = "bufferInterImage2" THEN "bufferInterImage1"
    ELSE member

\* "Set common kernel arguments" at the end of each constructor
CommonArgs(v) ==
    CASE v = "v1" ->
           [k \in Kernels |->
              IF k = "kernelConv"
              THEN [src |-> "bufferSourceImage", out |-> "bufferOutputImage",
                    flt |-> "bufferFilter"]
              ELSE NoArgs]
      [] v \in {"clc", "clcpp"} -> [k \in Kernels |-> NoArgs]
      [] v = "tex" ->
           [k \in Kernels |->
              IF k = "kernelNorm"
              THEN [src |-> "bufferSourceImage", out |-> "bufferInterImage1",
                    flt |-> "unset"]
              ELSE NoArgs]
      [] v = "vbo" ->
           [k \in Kernels |->
              CASE k = "kernelRGBA" ->
                     [src |-> "bufferSourceRGB", out |-> "unset", flt |-> "unset"]
                [] k = "kernelRGBNorm" ->
                     [src |-> "bufferInterRGBA", out |-> "bufferGLShared0",
                      flt |-> "unset"]
                [] k = "kernelDepthTo3D" ->
                     [src |-> "bufferSourceDepth", out |-> "bufferGLShared1",
                      flt |-> "unset"]
                [] OTHER -> NoArgs]

\* a command of the queue
Cmd(op, obj, host, kernel, a) ==
    [op |-> op, obj |-> obj, host |-> host, kernel |-> kernel,
     src |-> a.src, out |-> a.out, flt |-> a.flt]

FilterHost(step) ==
    CASE step = "writeFilter" -> "filter"
      [] step = "writeBoxFilter" -> "box_filter"
      [] step = "writeLaplacianFilter" -> "laplacian_filter"

FilterObj(step) ==
    CASE step = "writeFilter" -> "bufferFilter"
      [] step = "writeBoxFilter" -> "bufferBoxFilter"
      [] step = "writeLaplacianFilter" -> "bufferLaplacianFilter"

\* the steps that create a kernel object from the built program
KernelSteps == {"kernel_conv", "kernelConv", "kernelNorm", "kernelRGBA",
                "kernelRGBNorm", "kernelDepthTo3D"}

\* clBuildProgram / program.build on what the ifstream delivered: a missing
\* kernels.cl reads as the empty string, which a compiler may accept (a
\* program without kernels) or reject; TRUE stands for CL_SUCCESS
BuildOutcomes(k) ==
    CASE k = "ok" -> {TRUE}
      [] k = "broken" -> {FALSE}
      [] k = "absent" -> {TRUE, FALSE}

Terminate(cause) ==
    /\ pc' = "terminated"
    /\ exitCause' = cause

\* how a failed OpenCL call ends the process: chk () or a cl::Error
ApiFailure(v) == IF CApi(v) THEN "chk" ELSE "cl::Error"

BootStep ==
    /\ pc = "boot"
    /\ LET step == BootSteps(variant)[bootIdx] IN
       /\ bootIdx' = bootIdx + 1
       /\ created' = IF Creates(step) /\ ~(step \in KernelSteps /\ env.kernels = "absent")
                     THEN Append(created, step) ELSE created
       /\ CASE step = "getPlatform" ->
                 /\ IF env.platform THEN UNCHANGED << pc, exitCause >>
                    ELSE Terminate(ApiFailure(variant))
                 /\ UNCHANGED << devices, streaming, queue, kargs >>
            [] step = "getDevices" ->
                 /\ IF env.gpu
                    THEN devices' = "gpu" /\ UNCHANGED << pc, exitCause >>
                    ELSE devices' = devices /\ Terminate(ApiFailure(variant))
                 /\ UNCHANGED << streaming, queue, kargs >>
            [] step = "getGLDevice" ->
                 \* the status of clGetGLContextInfo is not looked at
                 /\ devices' = IF env.gpu THEN "gpu" ELSE "garbage"
                 /\ UNCHANGED << pc, exitCause, streaming, queue, kargs >>
            [] step = "checkCLGLInterop" ->
                 /\ IF devices = "garbage"
                    THEN \E c \in {"cl::Error", "crash"} : Terminate(c)
                    ELSE IF ~env.sharing THEN Terminate("notSupported")
                    ELSE UNCHANGED << pc, exitCause >>
                 /\ UNCHANGED << devices, streaming, queue, kargs >>
            [] step = "build" ->
                 \* if (status) { .. std::cerr << log ..; exit (EXIT_FAILURE); }
                 /\ \E ok \in BuildOutcomes(env.kernels) :
                       IF ok THEN UNCHANGED << pc, exitCause >>
                       ELSE Terminate("buildLog")
                 /\ UNCHANGED << devices, streaming, queue, kargs >>
            [] step \in KernelSteps ->
                 \* a program built from the empty string has no such kernel
                 /\ IF env.kernels = "absent" THEN Terminate(ApiFailure(variant))
                    ELSE UNCHANGED << pc, exitCause >>
                 /\ UNCHANGED << devices, streaming, queue, kargs >>
            [] step \in {"writeFilter", "writeBoxFilter", "writeLaplacianFilter"} ->
                 /\ queue' = Append(queue, Cmd("write", FilterObj(step),
                                              FilterHost(step), "", NoArgs))
                 /\ UNCHANGED << pc, exitCause, devices, streaming, kargs >>
            [] step = "setArgs" ->
                 /\ kargs' = CommonArgs(variant)
                 /\ UNCHANGED << pc, exitCause, devices, streaming, queue >>
            [] step = "startVideo" ->
                 /\ streaming' = streaming \cup {"rgb"}
                 /\ UNCHANGED << pc, exitCause, devices, queue, kargs >>
            [] step = "startDepth" ->
                 /\ streaming' = streaming \cup {"depth"}
                 /\ UNCHANGED << pc, exitCause, devices, queue, kargs >>
            [] step = "glutMainLoop" ->
                 /\ pc' = "idle"
                 /\ UNCHANGED << exitCause, devices, streaming, queue, kargs >>
            [] OTHER ->
                 UNCHANGED << pc, exitCause, devices, streaming, queue, kargs >>
    /\ UNCHANGED << krun, variant, env, mem, mbox, obuf, fresh, mutex, ppc, pstream,
                    pidx, pubCount, tstream, gray, overrun, smoothed, rgb_norm,
                    toggles, ip, dev, acquired, glDone, log, atLock, taken,
                    delivered, dlvAtLock, lastRet, toggleRet >>

\* ------------------------------------------------- driver thread: publish
\* libfreenect calls VideoCallback / DepthCallback; ScopedLock waits
PublishBegin(s) ==
    /\ Alive
    /\ ppc = "idle"
    /\ s \in streaming
    /\ pubCount[s] < MaxPublish
    /\ ppc' = "lock"
    /\ pstream' = s
    /\ pubCount' = [pubCount EXCEPT ![s] = @ + 1]
    /\ UNCHANGED << krun, variant, env, pc, bootIdx, devices, created, streaming, mem,
                    mbox, obuf, fresh, mutex, pidx, tstream, gray, overrun,
                    smoothed, rgb_norm, toggles, kargs, ip, queue, dev,
                    acquired, glDone, log, exitCause, atLock, taken, delivered,
                    dlvAtLock, lastRet, toggleRet >>

\* Mutex::ScopedLock lock (rgbMutex) in the callback
PublishLock ==
    /\ Alive
    /\ ppc = "lock"
    /\ LockFree(pstream)
    /\ mutex' = [mutex EXCEPT ![pstream] = "driver"]
    /\ ppc' = "copy"
    /\ pidx' = 1
    /\ UNCHANGED << krun, variant, env, pc, bootIdx, devices, created, streaming, mem,
                    mbox, obuf, fresh, pstream, pubCount, tstream, gray, overrun,
                    smoothed, rgb_norm, toggles, kargs, ip, queue, dev,
                    acquired, glDone, log, exitCause, atLock, taken, delivered,
                    dlvAtLock, lastRet, toggleRet >>

\* std::copy (rgb, rgb + getVideoBufferSize (), rgbBuffer.begin ()), a cell
PublishCopy ==
    /\ Alive
    /\ ppc = "copy"
    /\ pidx <= FrameLen
    /\ mem' = [mem EXCEPT ![mbox[pstream]] =
                  [px |-> [@.px EXCEPT ![pidx] = pubCount[pstream]],
                   hist |-> << >>]]
    /\ pidx' = pidx + 1
    /\ UNCHANGED << krun, variant, env, pc, bootIdx, devices, created, streaming,
                    mbox, obuf, fresh, mutex, ppc, pstream, pubCount, tstream,
                    gray, overrun, smoothed, rgb_norm, toggles, kargs, ip, queue,
                    dev, acquired, glDone, log, exitCause, atLock, taken,
                    delivered, dlvAtLock, lastRet, toggleRet >>

\* newRGBFrame = true; then ~ScopedLock on return
PublishEnd ==
    /\ Alive
    /\ ppc = "copy"
    /\ pidx > FrameLen
    /\ fresh' = SetFlag(fresh, pstream)
    /\ mutex' = Unlock(mutex, pstream)
    /\ ppc' = "idle"
    /\ UNCHANGED << krun, variant, env, pc, bootIdx, devices, created, streaming, mem,
                    mbox, obuf, pstream, pidx, pubCount, tstream, gray, overrun,
                    smoothed, rgb_norm, toggles, kargs, ip, queue, dev,
                    acquired, glDone, log, exitCause, atLock, taken, delivered,
                    dlvAtLock, lastRet, toggleRet >>

\* ------------------------------------------- convolve () / processFrames ()
\* an instruction of the host program; binds are (argument, member) pairs
Ins(op, kernel, binds, obj, host, blocking) ==
    [op |-> op, kernel |-> kernel, binds |-> binds, obj |-> obj, host |-> host,
     blocking |-> blocking]

Bind(arg, member) == [arg |-> arg, obj |-> member]
\* enqueueWriteImage / enqueueWriteBuffer (.., CL_FALSE, ..)
Write(obj, host) == Ins("write", "", << >>, obj, host, FALSE)
\* a read-back enqueued with CL_FALSE
ReadNonBlocking(obj, host) == Ins("read", "", << >>, obj, host, FALSE)

\* enqueueReadImage (.., CL_TRUE, ..)
Read(obj, host) == Ins("read", "", << >>, obj, host, TRUE)
SetArgs(kernel, binds) == Ins("setArgs", kernel, binds, "", "", FALSE)
NDRange(kernel) == Ins("ndrange", kernel, << >>, "", "", FALSE)
\* glFinish ()
GLFinish == Ins("glFinish", "", << >>, "", "", FALSE)
\* enqueueAcquireGLObjects
AcquireGL == Ins("acquire", "", << >>, "", "", FALSE)
\* a call that never gives the shared objects back
ReleaseGLMissing == Ins("glFinish", "", << >>, "", "", FALSE)
\* enqueueReleaseGLObjects
ReleaseGL == Ins("release", "", << >>, "", "", FALSE)
Finish == Ins("finish", "", << >>, "", "", TRUE)

\* a raw branch that leaves argument 0 as the last call bound it
RawSourceStale == << >>

\* else-branch of convolve: clSetKernelArg (kernelConv, 0, .., &bufferSourceImage)
RawSource == << Bind("src", "bufferSourceImage") >>

\* kinectFilter.cpp: the arguments were bound by the constructor
convolve_v1 ==
    << Write("bufferSourceImage", "image"),
       NDRange("kernelConv"),
       Read("bufferOutputImage", "image") >>

\* kinectFilter_clc.cpp: each group of clSetKernelArg is followed by one chk
convolve_clc(sm) ==
    << Write("bufferSourceImage", "image") >>
    \o (IF sm
        THEN << SetArgs("kernelConv", << Bind("src", "bufferSourceImage"),
                                         Bind("out", "bufferInterImage1"),
                                         Bind("flt", "bufferBoxFilter") >>),
                NDRange("kernelConv"),
                SetArgs("kernelConv", << Bind("src", "bufferInterImage1"),
                                         Bind("out", "bufferInterImage2") >>),
                NDRange("kernelConv"),
                SetArgs("kernelConv", << Bind("src", "bufferInterImage2") >>) >>
        ELSE << SetArgs("kernelConv", RawSource) >>)
    \o << SetArgs("kernelConv", << Bind("out", "bufferOutputImage"),
                                   Bind("flt", "bufferLaplacianFilter") >>),
          NDRange("kernelConv"),
          Read("bufferOutputImage", "image") >>

\* kinectFilter_clc++.cpp: every setArg throws on its own
convolve_clcpp(sm) ==
    << Write("bufferSourceImage", "image") >>
    \o (IF sm
        THEN << SetArgs("kernelConv", << Bind("src", "bufferSourceImage") >>),
                SetArgs("kernelConv", << Bind("out", "bufferInterImage1") >>),
                SetArgs("kernelConv", << Bind("flt", "bufferBoxFilter") >>),
                NDRange("kernelConv"),
                SetArgs("kernelConv", << Bind("src", "bufferInterImage1") >>),
                SetArgs("kernelConv", << Bind("out", "bufferInterImage2") >>),
                NDRange("kernelConv"),
                SetArgs("kernelConv", << Bind("src", "bufferInterImage2") >>) >>
        ELSE << SetArgs("kernelConv", RawSource) >>)
    \o << SetArgs("kernelConv", << Bind("out", "bufferOutputImage") >>),
          SetArgs("kernelConv", << Bind("flt", "bufferLaplacianFilter") >>),
          NDRange("kernelConv"),
          Read("bufferOutputImage", "image") >>

\* a texture pipeline whose Laplacian pass reads the uploaded source
convolve_tex_rawSource(sm) ==
    << Write("bufferSourceImage", "gray"),
       GLFinish,
       AcquireGL,
       SetArgs("kernelConv", << Bind("src", "bufferSourceImage") >>),
       SetArgs("kernelConv", << Bind("out", "bufferOutputImage") >>),
       SetArgs("kernelConv", << Bind("flt", "bufferLaplacianFilter") >>),
       NDRange("kernelConv"),
       ReleaseGL,
       Finish >>

\* kinectFilter_gl_interop_texture.cpp
convolve_tex(sm) ==
    << Write("bufferSourceImage", "gray"),
       GLFinish,
       AcquireGL,
       NDRange("kernelNorm") >>
    \o (IF sm
        THEN << SetArgs("kernelConv", << Bind("src", "bufferInterImage1") >>),
                SetArgs("kernelConv", << Bind("out", "bufferInterImage2") >>),
                SetArgs("kernelConv", << Bind("flt", "bufferBoxFilter") >>),
                NDRange("kernelConv"),
                SetArgs("kernelConv", << Bind("src", "bufferInterImage2") >>),
                SetArgs("kernelConv", << Bind("out", "bufferInterImage1") >>),
                NDRange("kernelConv") >>
        ELSE << >>)
    \o << SetArgs("kernelConv", << Bind("src", "bufferInterImage1") >>),
          SetArgs("kernelConv", << Bind("out", "bufferOutputImage") >>),
          SetArgs("kernelConv", << Bind("flt", "bufferLaplacianFilter") >>),
          NDRange("kernelConv"),
          ReleaseGL,
          Finish >>

\* kinectFilter_gl_interop_vertex_buffer.cpp
processFrames(rn) ==
    << GLFinish,
       AcquireGL,
       Write("bufferSourceRGB", "rgb"),
       Write("bufferSourceDepth", "depth"),
       SetArgs("kernelRGBA",
               << Bind("out", IF rn THEN "bufferInterRGBA" ELSE "bufferGLShared0") >>),
       NDRange("kernelRGBA") >>
    \o (IF rn THEN << NDRange("kernelRGBNorm") >> ELSE << >>)
    \o << NDRange("kernelDepthTo3D"),
          ReleaseGL,
          Finish >>

\* the program the render thread runs for a fresh frame
Program ==
    CASE variant = "v1" -> convolve_v1
      [] variant = "clc" -> convolve_clc(smoothed)
      [] variant = "clcpp" -> convolve_clcpp(smoothed)
      [] variant = "tex" -> convolve_tex(smoothed)
      [] variant = "vbo" -> processFrames(rgb_norm)

\* the GL objects wrapped by cl::ImageGL / cl::BufferGL
SharedObjs(v) ==
    CASE v = "tex" -> {"bufferOutputImage"}
      [] v = "vbo" -> {"bufferGLShared0", "bufferGLShared1"}
      [] OTHER -> {}

\* an entry of the log of the current call
LogE(op, kernel, obj, a, ok) ==
    [op |-> op, kernel |-> kernel, obj |-> obj, src |-> a.src, out |-> a.out,
     flt |-> a.flt, ok |-> ok]

\* ------------------------------------------------ render thread: tryTake
\* cv::cvtColor (rgb, gray, CV_RGB2GRAY): reads the mailbox storage in place
cvtColor(img) == Pass(img, "gray")

\* a take that hands out the caller's own storage again
SwapNothing(mb, ob) == [mbox |-> mb, obuf |-> ob]

\* a take that hands out the mailbox's storage and keeps using it
SwapAlias(mb, ob) == [mbox |-> mb, obuf |-> mb]

\* buffer.swap (rgbBuffer): the two vectors exchange their storage
Swap(mb, ob) == [mbox |-> ob, obuf |-> mb]

\* GLUT calls drawGLScene; the first statement is the take
DrawBegin ==
    /\ pc = "idle"
    /\ pc' = "take_lock"
    /\ tstream' = "rgb"
    /\ log' = << >>
    /\ glDone' = FALSE
    /\ UNCHANGED << krun, variant, env, bootIdx, devices, created, streaming, mem,
                    mbox, obuf, fresh, mutex, ppc, pstream, pidx, pubCount,
                    gray, overrun, smoothed, rgb_norm, toggles, kargs, ip,
                    queue, dev, acquired, exitCause, atLock, taken, delivered,
                    dlvAtLock, lastRet, toggleRet >>

\* Mutex::ScopedLock lock (rgbMutex) in getRGB / getDepth / updateRGB
TakeLock ==
    /\ pc = "take_lock"
    /\ LockFree(tstream)
    /\ mutex' = [mutex EXCEPT ![tstream] = "render"]
    /\ atLock' = [atLock EXCEPT ![tstream] = Published(tstream)]
    /\ pc' = "take_check"
    /\ UNCHANGED << krun, variant, env, bootIdx, devices, created, streaming, mem,
                    mbox, obuf, fresh, ppc, pstream, pidx, pubCount, tstream,
                    gray, overrun, smoothed, rgb_norm, toggles, kargs, ip,
                    queue, dev, acquired, glDone, log, exitCause, taken,
                    delivered, dlvAtLock, lastRet, toggleRet >>

\* if (!newRGBFrame) return false;  (~ScopedLock runs on the return)
TakeEmpty ==
    /\ pc = "take_check"
    /\ ~fresh[tstream]
    /\ mutex' = Unlock(mutex, tstream)
    /\ lastRet' = [lastRet EXCEPT ![tstream] = FALSE]
    /\ pc' = "render"
    /\ UNCHANGED << krun, variant, env, bootIdx, devices, created, streaming, mem,
                    mbox, obuf, fresh, ppc, pstream, pidx, pubCount, tstream,
                    gray, overrun, smoothed, rgb_norm, toggles, kargs, ip,
                    queue, dev, acquired, glDone, log, exitCause, atLock,
                    taken, delivered, dlvAtLock, toggleRet >>

\* vbo: getRGB / getDepth swap, clear the flag and return true; updateFrames
\* goes on to getDepth after getRGB and to processFrames after getDepth
TakeSwap ==
    /\ pc = "take_check"
    /\ fresh[tstream]
    /\ variant = "vbo"
    /\ LET s == tstream
           r == Swap(mbox[s], obuf[s]) IN
       /\ mbox' = [mbox EXCEPT ![s] = r.mbox]
       /\ obuf' = [obuf EXCEPT ![s] = r.obuf]
       /\ fresh' = ClearFlag(fresh, s)
       /\ mutex' = Unlock(mutex, s)
       /\ lastRet' = [lastRet EXCEPT ![s] = TRUE]
       /\ taken' = [taken EXCEPT ![s] = @ + 1]
       /\ delivered' = [delivered EXCEPT ![s] = mem[r.obuf].px]
       /\ dlvAtLock' = [dlvAtLock EXCEPT ![s] = atLock[s]]
       /\ IF s = "rgb"
          THEN pc' = "take_lock" /\ tstream' = "depth" /\ ip' = ip
          ELSE pc' = "call" /\ tstream' = s /\ ip' = 1
    /\ UNCHANGED << krun, variant, env, bootIdx, devices, created, streaming, mem,
                    ppc, pstream, pidx, pubCount, gray, overrun, smoothed,
                    rgb_norm, toggles, kargs, queue, dev, acquired, glDone,
                    log, exitCause, atLock, toggleRet >>

\* a getter that gives the lock back once the frame is converted
CvtColorUnlocked ==
    /\ pc = "take_check"
    /\ fresh[tstream]
    /\ VideoFilter(variant)
    /\ gray' = cvtColor(mem[mbox["rgb"]])
    /\ pc' = IF variant = "tex" THEN "call" ELSE "copy"
    /\ ip' = 1
    /\ mutex' = Unlock(mutex, "rgb")
    /\ UNCHANGED << krun, variant, env, bootIdx, devices, created, streaming, mem,
                    mbox, obuf, fresh, ppc, pstream, pidx, pubCount,
                    tstream, overrun, smoothed, rgb_norm, toggles, kargs,
                    queue, dev, acquired, glDone, log, exitCause, atLock,
                    taken, delivered, dlvAtLock, lastRet, toggleRet >>

\* video filters: the frame is converted while the lock is held
CvtColor ==
    /\ pc = "take_check"
    /\ fresh[tstream]
    /\ VideoFilter(variant)
    /\ gray' = cvtColor(mem[mbox["rgb"]])
    /\ pc' = IF variant = "tex" THEN "call" ELSE "copy"
    /\ ip' = 1
    /\ UNCHANGED << krun, variant, env, bootIdx, devices, created, streaming, mem,
                    mbox, obuf, fresh, mutex, ppc, pstream, pidx, pubCount,
                    tstream, overrun, smoothed, rgb_norm, toggles, kargs,
                    queue, dev, acquired, glDone, log, exitCause, atLock,
                    taken, delivered, dlvAtLock, lastRet, toggleRet >>

\* bytes std::copy moves for a converted image of n bytes: the range is
\* [gray.datastart, gray.dataend + 1), and gray.dataend is datastart + n
CopyCount(n) == n + 1

\* std::copy (gray.datastart, gray.dataend + 1, buffer.data ())
CopyGray ==
    /\ pc = "copy"
    /\ mem' = [mem EXCEPT ![obuf["rgb"]] = gray]
    /\ overrun' = (overrun \/ CopyCount(FrameLen) > FrameLen)
    /\ pc' = "call"
    /\ ip' = 1
    /\ UNCHANGED << krun, variant, env, bootIdx, devices, created, streaming, mbox,
                    obuf, fresh, mutex, ppc, pstream, pidx, pubCount, tstream,
                    gray, smoothed, rgb_norm, toggles, kargs, queue, dev,
                    acquired, glDone, log, exitCause, atLock, taken, delivered,
                    dlvAtLock, lastRet, toggleRet >>

\* ----------------------------------------- render thread: device operations
Running == pc = "call" /\ ip <= Len(Program)
Cur == Program[ip]

\* the bindings of a kernel after the binds of a group whose index is not in F
ApplyBinds(ka, binds, F) ==
    [a \in {"src", "out", "flt"} |->
        IF \E i \in (1..Len(binds)) \ F : binds[i].arg = a
        THEN binds[CHOOSE i \in (1..Len(binds)) \ F : binds[i].arg = a].obj
        ELSE ka[a]]

\* the memory objects a kernel is bound to when it is enqueued
Bound(k) ==
    [src |-> Handle(variant, kargs[k].src), out |-> Handle(variant, kargs[k].out),
     flt |-> Handle(variant, kargs[k].flt)]

ArgsSet(k) ==
    /\ kargs[k].src # "unset"
    /\ kargs[k].out # "unset"
    /\ k = "kernelConv" => kargs[k].flt # "unset"

\* a status nobody looks at
chkIgnored(ok, nextpc) == pc' = nextpc /\ exitCause' = exitCause

\* Filter::chk after a C call, a cl::Error thrown by the C++ wrapper: the
\* render thread goes on to nextpc only when the status is CL_SUCCESS
chk(ok, nextpc) ==
    IF ok THEN pc' = nextpc /\ exitCause' = exitCause
    ELSE Terminate(ApiFailure(variant))

\* enqueueWriteImage / enqueueWriteBuffer, enqueueReadImage,
\* enqueueAcquireGLObjects, enqueueReleaseGLObjects: the command is queued; a
\* blocking call waits for the queue to drain
ExecEnqueue ==
    /\ Running
    /\ Cur.op \in {"write", "read", "acquire", "release"}
    /\ \E ok \in BOOLEAN :
          /\ log' = Append(log, LogE(Cur.op, "", Cur.obj, NoArgs, ok))
          /\ queue' = IF ok
                      THEN Append(queue, Cmd(Cur.op, Cur.obj, Cur.host, "", NoArgs))
                      ELSE queue
          /\ ip' = ip + 1
          /\ chk(ok, IF Cur.blocking THEN "sync" ELSE "call")
    /\ UNCHANGED << krun, variant, env, bootIdx, devices, created, streaming, mem,
                    mbox, obuf, fresh, mutex, ppc, pstream, pidx, pubCount,
                    tstream, gray, overrun, smoothed, rgb_norm, toggles, kargs,
                    dev, acquired, glDone, atLock, taken, delivered, dlvAtLock,
                    lastRet, toggleRet >>

\* clSetKernelArg / kernel.setArg: every bind of the group is made, then the
\* status of the group is checked
ExecSetArgs ==
    /\ Running
    /\ Cur.op = "setArgs"
    /\ \E F \in SUBSET (1..Len(Cur.binds)) :
          /\ kargs' = [kargs EXCEPT ![Cur.kernel] = ApplyBinds(@, Cur.binds, F)]
          /\ log' = log \o [i \in 1..Len(Cur.binds) |->
                              LogE("setArg", Cur.kernel, Cur.binds[i].obj,
                                   [NoArgs EXCEPT ![Cur.binds[i].arg] =
                                       Handle(variant, Cur.binds[i].obj)],
                                   i \notin F)]
          /\ ip' = ip + 1
          /\ chk(F = {}, "call")
    /\ UNCHANGED << krun, variant, env, bootIdx, devices, created, streaming, mem,
                    mbox, obuf, fresh, mutex, ppc, pstream, pidx, pubCount,
                    tstream, gray, overrun, smoothed, rgb_norm, toggles, queue,
                    dev, acquired, glDone, atLock, taken, delivered, dlvAtLock,
                    lastRet, toggleRet >>

\* enqueueNDRangeKernel: the bindings are captured when the kernel is queued
ExecNDRange ==
    /\ Running
    /\ Cur.op = "ndrange"
    /\ \E ok \in (IF ArgsSet(Cur.kernel) THEN BOOLEAN ELSE {FALSE}) :
          /\ log' = Append(log, LogE("ndrange", Cur.kernel, "", Bound(Cur.kernel), ok))
          /\ queue' = IF ok
                      THEN Append(queue, Cmd("ndrange", "", "", Cur.kernel,
                                             Bound(Cur.kernel)))
                      ELSE queue
          /\ ip' = ip + 1
          /\ chk(ok, "call")
    /\ UNCHANGED << krun, variant, env, bootIdx, devices, created, streaming, mem,
                    mbox, obuf, fresh, mutex, ppc, pstream, pidx, pubCount,
                    tstream, gray, overrun, smoothed, rgb_norm, toggles, kargs,
                    dev, acquired, glDone, atLock, taken, delivered, dlvAtLock,
                    lastRet, toggleRet >>

\* queue.finish (): the thread waits for the queue to drain
ExecFinish ==
    /\ Running
    /\ Cur.op = "finish"
    /\ \E ok \in BOOLEAN :
          /\ log' = Append(log, LogE("finish", "", "", NoArgs, ok))
          /\ ip' = ip + 1
          /\ chk(ok, IF Cur.blocking THEN "sync" ELSE "call")
    /\ UNCHANGED << krun, variant, env, bootIdx, devices, created, streaming, mem,
                    mbox, obuf, fresh, mutex, ppc, pstream, pidx, pubCount,
                    tstream, gray, overrun, smoothed, rgb_norm, toggles, kargs,
                    queue, dev, acquired, glDone, atLock, taken, delivered,
                    dlvAtLock, lastRet, toggleRet >>

\* glFinish (): OpenGL has no pending operation on the shared objects
ExecGLFinish ==
    /\ Running
    /\ Cur.op = "glFinish"
    /\ glDone' = TRUE
    /\ log' = Append(log, LogE("glFinish", "", "", NoArgs, TRUE))
    /\ ip' = ip + 1
    /\ UNCHANGED << krun, variant, env, pc, bootIdx, devices, created, streaming,
                    mem, mbox, obuf, fresh, mutex, ppc, pstream, pidx,
                    pubCount, tstream, gray, overrun, smoothed, rgb_norm,
                    toggles, kargs, queue, dev, acquired, exitCause, atLock,
                    taken, delivered, dlvAtLock, lastRet, toggleRet >>

\* the blocking call returns once the device has run everything queued
Sync ==
    /\ pc = "sync"
    /\ queue = << >>
    /\ pc' = "call"
    /\ UNCHANGED << krun, variant, env, bootIdx, devices, created, streaming, mem,
                    mbox, obuf, fresh, mutex, ppc, pstream, pidx, pubCount,
                    tstream, gray, overrun, smoothed, rgb_norm, toggles, kargs,
                    ip, queue, dev, acquired, glDone, log, exitCause, atLock,
                    taken, delivered, dlvAtLock, lastRet, toggleRet >>

\* video filters: convolve () returned; newRGBFrame = false; return true
ConvolveReturn ==
    /\ pc = "call"
    /\ ip > Len(Program)
    /\ VideoFilter(variant)
    /\ fresh' = ClearFlag(fresh, "rgb")
    /\ mutex' = Unlock(mutex, "rgb")
    /\ lastRet' = [lastRet EXCEPT !["rgb"] = TRUE]
    /\ taken' = [taken EXCEPT !["rgb"] = @ + 1]
    /\ delivered' = [delivered EXCEPT !["rgb"] =
                        IF variant = "tex" THEN dev["bufferOutputImage"].px
                        ELSE mem[obuf["rgb"]].px]
    /\ dlvAtLock' = [dlvAtLock EXCEPT !["rgb"] = atLock["rgb"]]
    /\ pc' = "render"
    /\ UNCHANGED << krun, variant, env, bootIdx, devices, created, streaming, mem,
                    mbox, obuf, ppc, pstream, pidx, pubCount, tstream, gray,
                    overrun, smoothed, rgb_norm, toggles, kargs, ip, queue,
                    dev, acquired, glDone, log, exitCause, atLock, toggleRet >>

\* vbo: processFrames () returned to updateFrames
ProcessReturn ==
    /\ pc = "call"
    /\ ip > Len(Program)
    /\ variant = "vbo"
    /\ pc' = "render"
    /\ UNCHANGED << krun, variant, env, bootIdx, devices, created, streaming, mem,
                    mbox, obuf, fresh, mutex, ppc, pstream, pidx, pubCount,
                    tstream, gray, overrun, smoothed, rgb_norm, toggles, kargs,
                    ip, queue, dev, acquired, glDone, log, exitCause, atLock,
                    taken, delivered, dlvAtLock, lastRet, toggleRet >>

\* the rest of drawGLScene: the GL calls that draw the image, the texture or
\* the vertex buffers
Render ==
    /\ pc = "render"
    /\ pc' = "idle"
    /\ UNCHANGED << krun, variant, env, bootIdx, devices, created, streaming, mem,
                    mbox, obuf, fresh, mutex, ppc, pstream, pidx, pubCount,
                    tstream, gray, overrun, smoothed, rgb_norm, toggles, kargs,
                    ip, queue, dev, acquired, glDone, log, exitCause, atLock,
                    taken, delivered, dlvAtLock, lastRet, toggleRet >>

\* a toggle that only ever switches the stage on
ToggleOn(flag) == TRUE

\* smoothed = !smoothed; / rgb_norm = !rgb_norm;
Toggle(flag) == ~flag

\* keyPressed 'F': Filter::toggleSmoothing, which returns the new flag
toggleSmoothing ==
    /\ pc = "idle"
    /\ variant \in {"clc", "clcpp", "tex"}
    /\ toggles < MaxToggles
    /\ smoothed' = Toggle(smoothed)
    /\ toggleRet' = smoothed'
    /\ toggles' = toggles + 1
    /\ UNCHANGED << krun, variant, env, pc, bootIdx, devices, created, streaming,
                    mem, mbox, obuf, fresh, mutex, ppc, pstream, pidx,
                    pubCount, tstream, gray, overrun, rgb_norm, kargs, ip,
                    queue, dev, acquired, glDone, log, exitCause, atLock,
                    taken, delivered, dlvAtLock, lastRet >>

\* keyPressed 'C': Filter::toggleRGBNormalization
toggleRGBNormalization ==
    /\ pc = "idle"
    /\ variant = "vbo"
    /\ toggles < MaxToggles
    /\ rgb_norm' = Toggle(rgb_norm)
    /\ toggleRet' = rgb_norm'
    /\ toggles' = toggles + 1
    /\ UNCHANGED << krun, variant, env, pc, bootIdx, devices, created, streaming,
                    mem, mbox, obuf, fresh, mutex, ppc, pstream, pidx,
                    pubCount, tstream, gray, overrun, smoothed, kargs, ip,
                    queue, dev, acquired, glDone, log, exitCause, atLock,
                    taken, delivered, dlvAtLock, lastRet >>

\* ------------------------------------------------------------- the device
Coeff(host) ==
    [px |-> [i \in 1..FrameLen |-> 0],
     hist |-> << IF host = "box_filter" THEN "box" ELSE "lap" >>]

FilterArrays == {"filter", "box_filter", "laplacian_filter"}

\* what a queued write reads from the host when the device runs it; the
\* coefficient arrays are locals of the constructor
UploadData(cmd) ==
    IF cmd.host \in FilterArrays
    THEN IF CtorRunning THEN {Coeff(cmd.host)} ELSE {Coeff(cmd.host), Garbage}
    ELSE CASE cmd.host = "gray" -> {gray}
           [] cmd.host = "depth" -> {mem[obuf["depth"]]}
           [] OTHER -> {mem[obuf["rgb"]]}

\* the pass a kernel applies
Tag(kernel, flt) ==
    CASE kernel = "kernelConv" -> dev[flt].hist[1]
      [] kernel = "kernelNorm" -> "norm"
      [] kernel = "kernelRGBA" -> "rgba"
      [] kernel = "kernelRGBNorm" -> "rgbnorm"
      [] kernel = "kernelDepthTo3D" -> "to3d"

\* a kernel that reads the image it writes has no defined result
KernelResult(cmd) ==
    IF cmd.src = cmd.out THEN Pass(dev[cmd.src], "undef")
    ELSE Pass(dev[cmd.src], Tag(cmd.kernel, cmd.flt))

\* the device runs the command at the head of the in-order queue
DeviceExec ==
    /\ Alive
    /\ queue # << >>
    /\ LET cmd == Head(queue) IN
       /\ queue' = Tail(queue)
       /\ CASE cmd.op = "write" ->
                 /\ \E d \in UploadData(cmd) : dev' = [dev EXCEPT ![cmd.obj] = d]
                 /\ UNCHANGED << mem, acquired >>
            [] cmd.op = "ndrange" ->
                 /\ dev' = [dev EXCEPT ![cmd.out] = KernelResult(cmd)]
                 /\ UNCHANGED << mem, acquired >>
            [] cmd.op = "read" ->
                 /\ mem' = [mem EXCEPT ![obuf["rgb"]] = dev[cmd.obj]]
                 /\ UNCHANGED << dev, acquired >>
            [] cmd.op = "acquire" ->
                 /\ acquired' = TRUE
                 /\ UNCHANGED << dev, mem >>
            [] cmd.op = "release" ->
                 /\ acquired' = FALSE
                 /\ UNCHANGED << dev, mem >>
    /\ UNCHANGED << krun, variant, env, pc, bootIdx, devices, created, streaming,
                    mbox, obuf, fresh, mutex, ppc, pstream, pidx, pubCount,
                    tstream, gray, overrun, smoothed, rgb_norm, toggles, kargs,
                    ip, glDone, log, exitCause, atLock, taken, delivered,
                    dlvAtLock, lastRet, toggleRet >>

\* --------------------------------------------------- the kernels' arithmetic
\* An image is a sequence of rows, each a sequence of pixels.  The weights of
\* a filter are counted in eighths (0.125f is 1, 1.f is 8, -8.f is -64): every
\* product and every partial sum the kernel forms in float is then an exact
\* whole number of eighths below 2^24, so float arithmetic adds no rounding.
filterWidth == 3
\* eight weights of 0.125f around a centre of 0, which sum to 1
box_unit_sum == << 1, 1, 1, 1, 0, 1, 1, 1, 1 >>
box_filter == << 1, 1, 1, 1, 1, 1, 1, 1, 1 >>
\* weights whose centre is -7.f, which sum to 1
laplacian_centre7 == << 8, 8, 8, 8, -56, 8, 8, 8, 8 >>
laplacian_filter == << 8, 8, 8, 8, -64, 8, 8, 8, 8 >>
FilterOf(name) == IF name = "box" THEN box_filter ELSE laplacian_filter

\* largest value of a CL_UNSIGNED_INT8 channel
UInt8Max == 255

Clamp(v, lo, hi) == IF v < lo THEN lo ELSE IF v > hi THEN hi ELSE v
Rows(img) == Len(img)
Cols(img) == Len(img[1])

\* a sampler that answers 0 outside the image (CLK_ADDRESS_CLAMP)
read_imageui_border(img, x, y) ==
    IF x < 0 \/ y < 0 \/ x >= Cols(img) \/ y >= Rows(img)
    THEN 0
    ELSE img[y + 1][x + 1]

\* read_imageui through the Filter's sampler: unnormalised coordinates,
\* CL_ADDRESS_CLAMP_TO_EDGE, CL_FILTER_NEAREST
read_imageui(img, x, y) ==
    img[Clamp(y, 0, Rows(img) - 1) + 1][Clamp(x, 0, Cols(img) - 1) + 1]

\* the float sum of one work-item, in eighths; row + i and column + j are
\* formed in uint and stored to an int, which gives -1 above the first row
Accumulate(img, column, row, filter) ==
    LET halfwidth == filterWidth \div 2
        term(n) ==
            LET i == ((n - 1) \div filterWidth) - halfwidth
                j == ((n - 1) % filterWidth) - halfwidth
            IN  read_imageui(img, column + j, row + i) * filter[n]
        sum[n \in 0..(filterWidth * filterWidth)] ==
            IF n = 0 THEN 0 ELSE sum[n - 1] + term(n)
    IN  sum[filterWidth * filterWidth]

\* uint4 color = { sum, 0, 0, 0 } followed by write_imageui into an 8-bit
\* channel.  The conversion truncates toward zero; a sum of -1 or less is
\* out of the range of uint and the outcome depends on the build: 0 where
\* the conversion saturates, 2^32 + trunc (sum) where it wraps.  The write
\* saturates to 0..255, so a wrapped value is stored as 255.
StorePixel(sum8, neg) ==
    IF sum8 <= -8 THEN (IF neg = "zero" THEN 0 ELSE UInt8Max)
    ELSE IF sum8 < 0 THEN 0
    ELSE Clamp(sum8 \div 8, 0, UInt8Max)

\* one NDRange of the kernel over global = { width, height }
convolution(img, filter, neg) ==
    [r \in 1..Rows(img) |->
        [c \in 1..Cols(img) |->
            StorePixel(Accumulate(img, c - 1, r - 1, filter), neg)]]

\* a pipeline whose smoothing passes are left out
convolve_unsmoothed(img, sm, neg) == convolution(img, laplacian_filter, neg)

\* the passes convolve () dispatches between its upload and its read-back
convolve(img, sm, neg) ==
    IF sm
    THEN convolution(convolution(convolution(img, box_filter, neg),
                                 box_filter, neg),
                     laplacian_filter, neg)
    ELSE convolution(img, laplacian_filter, neg)

\* clEnqueueWriteImage: region { width, height, 1 }, row pitch 0; the bytes
\* past the end of a short host vector are whatever the heap holds (pad)
WriteImage(frame, cols, rows, pad) ==
    [r \in 1..rows |->
        [c \in 1..cols |->
            LET n == (r - 1) * cols + c
            IN  IF n <= Len(frame) THEN frame[n] ELSE pad]]

\* clEnqueueReadImage into the same host vector, whose size does not change
ReadImage(img, frame) ==
    [n \in 1..Len(frame) |->
        IF n <= Rows(img) * Cols(img)
        THEN img[((n - 1) \div Cols(img)) + 1][((n - 1) % Cols(img)) + 1]
        ELSE frame[n]]

\* focal length passed to kernelDepthTo3D
FocalLength == 595

\* a kernel that takes the centre with integer division
depthTo3D_intCentre(cols, rows, gX, gY, d) ==
    [idx |-> gY * cols + gX,
     X2 |-> (2 * gX - 2 * ((cols - 1) \div 2)) * d,
     Y2 |-> (2 * gY - 2 * ((rows - 1) \div 2)) * d,
     Z |-> d, W |-> 1, den |-> 2 * FocalLength]

\* the work-item (gX, gY) of depthTo3D over global = { cols, rows }; X and Y
\* are the fractions X2 / den and Y2 / den, the real numbers whose nearest
\* float the kernel stores
depthTo3D(cols, rows, gX, gY, d) ==
    [idx |-> gY * cols + gX,
     X2 |-> (2 * gX - (cols - 1)) * d,
     Y2 |-> (2 * gY - (rows - 1)) * d,
     Z |-> d, W |-> 1, den |-> 2 * FocalLength]

\* ------------------------------------------------ the bounds check of a kernel
\* the kernels that take rows and cols
GuardedKernels == {"convolution", "convolutionGL", "normalizeImg",
                   "rgb2rgba", "normalizeRGB"}

\* the program each of them is dispatched by
KernelVariant(kernel) ==
    CASE kernel = "convolution" -> "clc"
      [] kernel \in {"convolutionGL", "normalizeImg"} -> "tex"
      [] OTHER -> "vbo"

\* a guard that tests the row only
InBoundsRowOnly(row, column, rows, cols) == row < rows

\* if (row < rows && column < cols), on uint operands
InBounds(row, column, rows, cols) == row < rows /\ column < cols

\* where a work-item stores: the image kernels at coords (column, row), the
\* buffer kernels at element idx = row * cols + column
StoreAt(kernel, row, column, cols) ==
    IF kernel \in {"rgb2rgba", "normalizeRGB"}
    THEN << row * cols + column >>
    ELSE << column, row >>

\* the host's arguments 2 and 3: rows is the height, cols the width
SetKernelDims(width, height) == [rows |-> height, cols |-> width]

\* global { width, height }: dimension 0 runs over columns, 1 over rows
GlobalSize(width, height) == << width, height >>

\* the stores of one NDRange: one entry per work-item that passes the guard
NDRangeWrites(kernel, dims, global) ==
    {[item |-> << column, row >>,
      at |-> StoreAt(kernel, row, column, dims.cols)] :
        << column, row >> \in
           {it \in (0..(global[1] - 1)) \X (0..(global[2] - 1)) :
               InBounds(it[2], it[1], dims.rows, dims.cols)}}

\* ------------------------------------------------- Filter::~Filter, C programs
\* the objects the constructor creates, in the order it creates them
Acquisitions(v) ==
    SelectSeq(IF v = "v1" THEN FilterCtor_v1 ELSE FilterCtor_clc, Creates)

\* a destructor that gives the context up first
Destructor_ContextFirst(v) ==
    IF v = "v1"
    THEN << "context", "queue", "sampler", "bufferSourceImage",
            "bufferOutputImage", "bufferFilter", "program", "kernel_conv" >>
    ELSE << "context", "queue", "sampler", "bufferSourceImage",
            "bufferInterImage1", "bufferInterImage2", "bufferOutputImage",
            "bufferBoxFilter", "bufferLaplacianFilter", "program",
            "kernelConv" >>

\* ~Filter: the clRelease calls in the order they are written
Destructor(v) ==
    IF v = "v1"
    THEN << "kernel_conv", "program", "bufferSourceImage",
            "bufferOutputImage", "bufferFilter", "sampler", "queue",
            "context" >>
    ELSE << "kernelConv", "program", "bufferSourceImage",
            "bufferInterImage1", "bufferInterImage2", "bufferOutputImage",
            "bufferBoxFilter", "bufferLaplacianFilter", "sampler", "queue",
            "context" >>

\* the object a resource is created from: clCreateKernel (program, ..),
\* everything else from the context
CreatedFrom(r) ==
    IF r \in KernelSteps THEN "program"
    ELSE IF r = "context" THEN "none" ELSE "context"

\* ------------------------------------------- the kernels of the interop programs
\* A float is held as a whole number of 1 / Unit; 1.0f is Unit.  Dividing
\* an 8-bit value by 255.f and two passes of 0.125f weights are exact in it.
Unit == UInt8Max * 8 * 8

\* a channel value num / den; den = 0 stands for the NaN of 0.f / 0.f
Channel(num, den) == [num |-> num, den |-> den]
One == Channel(1, 1)

\* normalizeImg: pixelf = convert_float4 (pixel) / 255.f, stored in the
\* single channel of the CL_R, CL_FLOAT intermediate image
normalizeImg(img) ==
    [r \in 1..Rows(img) |->
        [c \in 1..Cols(img) |-> (img[r][c] * Unit) \div UInt8Max]]

\* read_imagef through the same sampler as read_imageui
read_imagef(img, x, y) ==
    img[Clamp(y, 0, Rows(img) - 1) + 1][Clamp(x, 0, Cols(img) - 1) + 1]

\* the float sum of one work-item of convolutionGL, the weights in eighths
AccumulateGL(img, column, row, filter) ==
    LET halfwidth == filterWidth \div 2
        term(n) ==
            LET i == ((n - 1) \div filterWidth) - halfwidth
                j == ((n - 1) % filterWidth) - halfwidth
            IN  read_imagef(img, column + j, row + i) * filter[n]
        sum[n \in 0..(filterWidth * filterWidth)] ==
            IF n = 0 THEN 0 ELSE sum[n - 1] + term(n)
    IN  sum[filterWidth * filterWidth] \div 8

\* one NDRange of convolutionGL whose source and output are two images:
\* color = { sum, sum, sum, 1.f } goes to the output by write_imagef, which
\* stores a float channel as it is
convolutionGL(img, filter) ==
    [r \in 1..Rows(img) |->
        [c \in 1..Cols(img) |-> AccumulateGL(img, c - 1, r - 1, filter)]]

\* one NDRange of convolutionGL whose source and output are one image, the
\* work-items taken one after the other in row-major order, each reading
\* what the earlier ones stored
convolutionGL_inPlace(img, filter) ==
    LET C == Cols(img)
        pass[n \in 0..(Rows(img) * C)] ==
            IF n = 0 THEN img
            ELSE LET row == (n - 1) \div C
                     column == (n - 1) % C
                     stored == pass[n - 1]
                 IN  [stored EXCEPT ![row + 1][column + 1] =
                         AccumulateGL(stored, column, row, filter)]
    IN  pass[Rows(img) * C]

\* a box pass of the texture program reads the image it writes, which
\* OpenCL leaves undefined: every work-item may read before any stores, or
\* the work-items may see one another's stores
BoxPassGL(img) ==
    {convolutionGL(img, box_filter), convolutionGL_inPlace(img, box_filter)}

\* the single-channel sums Filter::convolve of the texture program leaves
\* in the shared texture, one image for each way the box passes can go
convolveGL(img, sm) ==
    LET norm == normalizeImg(img)
    IN  IF sm
        THEN {convolutionGL(b2, laplacian_filter) :
                 b2 \in UNION {BoxPassGL(b1) : b1 \in BoxPassGL(norm)}}
        ELSE {convolutionGL(norm, laplacian_filter)}

\* the channel values of the texture: sum three times and 1.f
TextureChannels(tex) ==
    {Channel(tex[r][c], Unit) : r \in 1..Rows(tex), c \in 1..Cols(tex)}
       \cup {One}

\* rgb2rgba: (float4) (convert_float3 (pixel) / 255.f, 1.f)
rgb2rgba(pixel) ==
    << Channel(pixel[1], UInt8Max), Channel(pixel[2], UInt8Max),
       Channel(pixel[3], UInt8Max), One >>

\* normalizeRGB: sum = x + y + z; pixel /= sum; pixel.w = 1.f.  The three
\* channels share the denominator 255, so x / sum is pixel.x over the sum
\* of the numerators, and 0.f / 0.f when the pixel is black
normalizeRGB(pixel) ==
    LET sum == pixel[1].num + pixel[2].num + pixel[3].num
    IN  << Channel(pixel[1].num, sum), Channel(pixel[2].num, sum),
           Channel(pixel[3].num, sum), One >>

\* the float4 Filter::processFrames leaves in the shared colour buffer
processFrames_colour(pixel, rn) ==
    IF rn THEN normalizeRGB(rgb2rgba(pixel)) ELSE rgb2rgba(pixel)

\* ------------------------------------------------- frames given to a kernel
MaxSpots == 2
\* work-items a grid may have beyond the image, in each dimension
MaxPad == 2
Levels == {0, 1, 2, 8, 128, 255}
Negs == {"zero", "wrap"}
\* << width, height >> of the images, and of the depth grids (gl_width,
\* gl_height and two small ones)
ImageSizes == {<< 1, 1 >>, << 3, 3 >>, << 4, 3 >>, << 3, 4 >>}
GridSizes == {<< 640, 480 >>, << 4, 3 >>, << 2, 2 >>}
Depths == {0, 1, 1000, 2047, 65535}

ConstantFrame(n, C) == [i \in 1..n |-> C]
SpotFrame(n, b, f, S) == [i \in 1..n |-> IF i \in S THEN f ELSE b]
Spots(n) == {S \in SUBSET (1..n) : Cardinality(S) \in 1..MaxSpots}

NoPass == [filter |-> "none", out |-> << >>]
NoPoint == [idx |-> 0, X2 |-> 0, Y2 |-> 0, Z |-> 0, W |-> 0, den |-> 1]
NoRun ==
    [kind |-> "none", cols |-> 1, rows |-> 1, frame |-> << 0 >>,
     neg |-> "zero", smoothed |-> TRUE, stage |-> "idle", uploads |-> 0,
     Raw |-> << >>, Smoothed |-> << >>, pass |-> NoPass,
     item |-> << >>, point |-> NoPoint,
     kernel |-> "none", dims |-> [rows |-> 0, cols |-> 0],
     global |-> << 0, 0 >>, writes |-> {}, rgb_norm |-> FALSE,
     shared |-> {}, live |-> << >>, released |-> << >>]
VideoRun(kind, cols, rows, frame, neg) ==
    [NoRun EXCEPT !.kind = kind, !.cols = cols, !.rows = rows,
                  !.frame = frame, !.neg = neg]
DepthRun(cols, rows) ==
    [NoRun EXCEPT !.kind = "depthTo3D", !.cols = cols, !.rows = rows]
\* a Filter about to be constructed and, later, deleted
LifetimeRun == [NoRun EXCEPT !.kind = "lifetime"]
\* a frame Filter::convolve of the texture program is about to be given
TextureRun(cols, rows, frame) ==
    [NoRun EXCEPT !.kind = "convolveGL", !.cols = cols, !.rows = rows,
                  !.frame = frame]
\* one pixel of the colour frame Filter::processFrames is about to be given
ColourRun(r, g, b) ==
    [NoRun EXCEPT !.kind = "processFrames", !.item = << r, g, b >>]
\* a kernel about to be dispatched over an image of cols x rows pixels
DispatchRun(kernel, cols, rows) ==
    [NoRun EXCEPT !.kind = "dispatch", !.kernel = kernel, !.cols = cols,
                  !.rows = rows]

\* constant images of every 8-bit value, images with up to MaxSpots pixels
\* off a background, and 3 x 3 runs whose host vector has 8 or 10 bytes
KInputs ==
    {VideoRun(kind, sz[1], sz[2], ConstantFrame(sz[1] * sz[2], C), neg) :
        kind \in {"convolution", "convolve"}, sz \in ImageSizes,
        C \in 0..UInt8Max, neg \in Negs}
    \cup
    {VideoRun(kind, 3, 3, SpotFrame(9, b, f, S), neg) :
        kind \in {"convolution", "convolve"}, b \in Levels,
        f \in Levels, S \in Spots(9), neg \in Negs}
    \cup
    {VideoRun("convolve", 3, 3, SpotFrame(n, b, f, {1}), "zero") :
        n \in {8, 10}, b \in Levels, f \in Levels}
    \cup
    {DepthRun(sz[1], sz[2]) : sz \in GridSizes}
    \cup
    {DispatchRun(k, sz[1], sz[2]) : k \in GuardedKernels, sz \in ImageSizes}
    \cup
    {TextureRun(sz[1], sz[2], ConstantFrame(sz[1] * sz[2], C)) :
        sz \in ImageSizes, C \in Levels}
    \cup
    {TextureRun(3, 3, SpotFrame(9, b, f, {i})) :
        b \in Levels, f \in Levels, i \in 1..9}
    \cup
    {ColourRun(r, g, b) : r \in Levels, g \in Levels, b \in Levels}
    \cup
    {LifetimeRun}

\* ------------------------------------------------------------ the system
Blocks == {"mb_rgb", "cb_rgb", "mb_depth", "cb_depth"}

DevObjs == {"bufferSourceImage", "bufferInterImage1", "bufferInterImage2",
            "bufferOutputImage", "bufferFilter", "bufferBoxFilter",
            "bufferLaplacianFilter", "bufferSourceRGB", "bufferInterRGBA",
            "bufferSourceDepth", "bufferGLShared0", "bufferGLShared1"}

\* the machines the program starts on
Envs(v) ==
    {e \in [platform : BOOLEAN, gpu : BOOLEAN, sharing : BOOLEAN,
            kernels : {"ok", "absent", "broken"}] :
        /\ ~Interop(v) => e.sharing
        /\ ~e.platform => ~e.gpu
        /\ ~e.gpu => e.sharing
        /\ e.kernels # "ok" => e.platform /\ e.gpu /\ e.sharing}

Boot ==
    /\ variant \in Variants
    /\ env \in Envs(variant)
    /\ pc = "boot"
    /\ bootIdx = 1
    /\ devices = "none"
    /\ created = << >>
    /\ streaming = {}
    /\ mem = [b \in Blocks |-> Blank]
    /\ mbox = [s \in AllStreams |-> IF s = "rgb" THEN "mb_rgb" ELSE "mb_depth"]
    /\ obuf = [s \in AllStreams |-> IF s = "rgb" THEN "cb_rgb" ELSE "cb_depth"]
    /\ fresh = [s \in AllStreams |-> FALSE]
    /\ mutex = [s \in AllStreams |-> "free"]
    /\ ppc = "idle"
    /\ pstream = "rgb"
    /\ pidx = 1
    /\ pubCount = [s \in AllStreams |-> 0]
    /\ tstream = "rgb"
    /\ gray = Blank
    /\ overrun = FALSE
    /\ smoothed = (variant \in {"clc", "clcpp", "tex"})
    /\ rgb_norm = FALSE
    /\ toggles = 0
    /\ kargs = [k \in Kernels |-> NoArgs]
    /\ ip = 1
    /\ queue = << >>
    /\ dev = [o \in DevObjs |-> Garbage]
    /\ acquired = FALSE
    /\ glDone = FALSE
    /\ log = << >>
    /\ exitCause = "none"
    /\ atLock = [s \in AllStreams |-> 0]
    /\ taken = [s \in AllStreams |-> 0]
    /\ delivered = [s \in AllStreams |-> [i \in 1..FrameLen |-> 0]]
    /\ dlvAtLock = [s \in AllStreams |-> 0]
    /\ lastRet = [s \in AllStreams |-> FALSE]
    /\ toggleRet = "none"

Init == Boot /\ krun = NoRun

Next ==
    \/ BootStep
    \/ \E s \in AllStreams : PublishBegin(s)
    \/ PublishLock
    \/ PublishCopy
    \/ PublishEnd
    \/ DrawBegin
    \/ TakeLock
    \/ TakeEmpty
    \/ TakeSwap
    \/ CvtColor
    \/ CopyGray
    \/ ExecEnqueue
    \/ ExecSetArgs
    \/ ExecNDRange
    \/ ExecFinish
    \/ ExecGLFinish
    \/ Sync
    \/ ConvolveReturn
    \/ ProcessReturn
    \/ Render
    \/ toggleSmoothing
    \/ toggleRGBNormalization
    \/ DeviceExec

Spec == Init /\ [][Next]_vars

\* ------------------------------------------------ one frame, kernel by kernel
sysvars == << variant, env, pc, bootIdx, devices, created, streaming, mem,
              mbox, obuf, fresh, mutex, ppc, pstream, pidx, pubCount, tstream,
              gray, overrun, smoothed, rgb_norm, toggles, kargs, ip, queue,
              dev, acquired, glDone, log, exitCause, atLock, taken, delivered,
              dlvAtLock, lastRet, toggleRet >>

KInit ==
    /\ Boot
    /\ env = [platform |-> TRUE, gpu |-> TRUE, sharing |-> TRUE,
              kernels |-> "ok"]
    /\ krun \in KInputs
    /\ variant \in (IF krun.kind = "depthTo3D" THEN {"vbo"}
                    ELSE IF krun.kind = "dispatch"
                         THEN {KernelVariant(krun.kernel)}
                         ELSE IF krun.kind = "convolveGL" THEN {"tex"}
                         ELSE IF krun.kind = "processFrames" THEN {"vbo"}
                         ELSE IF krun.kind = "lifetime" THEN {"v1", "clc"}
                         ELSE {"clc"})

\* one dispatch of kernelConv with the box or the Laplacian weights bound
KConvolution ==
    /\ krun.kind = "convolution"
    /\ \E name \in {"box", "lap"} :
          /\ krun.pass.filter # name
          /\ krun' = [krun EXCEPT !.pass =
                 [filter |-> name,
                  out |-> convolution(
                      WriteImage(krun.frame, krun.cols, krun.rows, 0),
                      FilterOf(name), krun.neg)]]
    /\ UNCHANGED sysvars

\* Filter::convolve (image): the upload of width * height bytes from
\* image.data () is submitted whatever image.size () is; a vector that is
\* too short is read and written past its end, which yields stray bytes or
\* ends the process
KConvolve ==
    /\ krun.kind = "convolve"
    /\ krun.stage = "idle"
    /\ (IF krun.smoothed THEN krun.Smoothed ELSE krun.Raw) = << >>
    /\ LET short == Len(krun.frame) < krun.cols * krun.rows
       IN  \E pad \in (IF short THEN Levels ELSE {0}),
              crash \in (IF short THEN BOOLEAN ELSE {FALSE}) :
              IF crash
              THEN krun' = [krun EXCEPT !.uploads = @ + 1,
                                        !.stage = "crashed"]
              ELSE LET out == ReadImage(
                           convolve(WriteImage(krun.frame, krun.cols,
                                               krun.rows, pad),
                                    krun.smoothed, krun.neg),
                           krun.frame)
                   IN  IF krun.smoothed
                       THEN krun' = [krun EXCEPT !.uploads = @ + 1,
                                                 !.Smoothed = out]
                       ELSE krun' = [krun EXCEPT !.uploads = @ + 1,
                                                 !.Raw = out]
    /\ UNCHANGED sysvars

\* Filter::toggleSmoothing () between two calls of convolve ()
KToggleSmoothing ==
    /\ krun.kind = "convolve"
    /\ krun.stage = "idle"
    /\ (IF krun.smoothed THEN krun.Smoothed ELSE krun.Raw) # << >>
    /\ krun' = [krun EXCEPT !.smoothed = Toggle(@)]
    /\ UNCHANGED sysvars

\* one work-item of kernelDepthTo3D
KDepthTo3D ==
    /\ krun.kind = "depthTo3D"
    /\ \E gX \in {0, 1, 319, krun.cols - 1} \cap (0..(krun.cols - 1)),
          gY \in {0, 1, 239, krun.rows - 1} \cap (0..(krun.rows - 1)),
          d \in Depths :
          krun' = [krun EXCEPT
                      !.item = << gX, gY, d >>,
                      !.point = depthTo3D(krun.cols, krun.rows, gX, gY, d)]
    /\ UNCHANGED sysvars

\* one NDRange of a kernel that takes rows and cols, with the arguments the
\* constructor bound, over the Filter's grid or one padded beyond the image
KDispatch ==
    /\ krun.kind = "dispatch"
    /\ \E dx \in 0..MaxPad, dy \in 0..MaxPad :
          LET dims == SetKernelDims(krun.cols, krun.rows)
              host == GlobalSize(krun.cols, krun.rows)
              global == << host[1] + dx, host[2] + dy >>
          IN  /\ krun.global # global
              /\ krun' = [krun EXCEPT
                     !.stage = "done", !.dims = dims, !.global = global,
                     !.writes = NDRangeWrites(krun.kernel, dims, global)]
    /\ UNCHANGED sysvars

\* one clCreate call of the constructor
KCreate ==
    /\ krun.kind = "lifetime"
    /\ Len(krun.live) < Len(Acquisitions(variant))
    /\ krun' = [krun EXCEPT
           !.stage = "constructing",
           !.live = Append(@, Acquisitions(variant)[Len(@) + 1])]
    /\ UNCHANGED sysvars

\* delete opencl: one clRelease call of the destructor
KRelease ==
    /\ krun.kind = "lifetime"
    /\ Len(krun.live) = Len(Acquisitions(variant))
    /\ Len(krun.released) < Len(Destructor(variant))
    /\ krun' = [krun EXCEPT
           !.stage = "destroying",
           !.released = Append(@, Destructor(variant)[Len(@) + 1])]
    /\ UNCHANGED sysvars

\* Filter::convolve of the texture program on one frame, in either mode
KConvolveGL ==
    /\ krun.kind = "convolveGL"
    /\ \E sm \in BOOLEAN :
          /\ krun.stage = "idle" \/ krun.smoothed # sm
          /\ \E tex \in convolveGL(WriteImage(krun.frame, krun.cols,
                                              krun.rows, 0), sm) :
                krun' = [krun EXCEPT !.smoothed = sm, !.stage = "done",
                                     !.shared = TextureChannels(tex)]
    /\ UNCHANGED sysvars

\* Filter::processFrames on one pixel of the colour frame, in either mode
KProcessFrames ==
    /\ krun.kind = "processFrames"
    /\ \E rn \in BOOLEAN :
          /\ krun.stage = "idle" \/ krun.rgb_norm # rn
          /\ LET out == processFrames_colour(krun.item, rn)
             IN  krun' = [krun EXCEPT !.rgb_norm = rn, !.stage = "done",
                             !.shared = {out[n] : n \in 1..4}]
    /\ UNCHANGED sysvars

KNext ==
    \/ KConvolution
    \/ KConvolve
    \/ KToggleSmoothing
    \/ KDepthTo3D
    \/ KDispatch
    \/ KConvolveGL
    \/ KProcessFrames
    \/ KCreate
    \/ KRelease

KernelSpec == KInit /\ [][KNext]_vars

\* ----------------------------------------------------- fair scheduling
\* a step of the driver thread that already holds, or needs no, lock
DriverStep == PublishCopy \/ PublishEnd
\* a step of the render thread or of the device it waits for
RenderStep ==
    \/ DrawBegin \/ TakeLock \/ TakeEmpty \/ TakeSwap \/ CvtColor \/ CopyGray
    \/ ExecEnqueue \/ ExecSetArgs \/ ExecNDRange \/ ExecFinish
    \/ ExecGLFinish \/ Sync \/ ConvolveReturn \/ ProcessReturn \/ Render
    \/ DeviceExec
\* both threads keep running, and a thread that waits for a mutex which is
\* free again and again gets it
FairSpec ==
    /\ Spec
    /\ WF_vars(DriverStep)
    /\ WF_vars(RenderStep)
    /\ SF_vars(PublishLock)

\* ------------------------------------------------------------- properties
\* publishes completed when the last successful take of s locked, 0 before
LastTake(s) == IF taken[s] = 0 THEN 0 ELSE dlvAtLock[s]

\* convolve / processFrames ran in this drawGLScene and has returned
Returned == pc = "render" /\ log # << >>

IsCommand(e) == e.op \in {"write", "ndrange", "read"}
IsDispatch(e) == e.op = "ndrange"
WritesShared(e) == e.op = "ndrange" /\ e.out \in SharedObjs(variant)

\* the commands the current call put on the queue, with their bindings
Submitted == SelectSeq(log, IsCommand)

\* the kernels the current call dispatched, in order
Dispatched ==
    LET d == SelectSeq(log, IsDispatch) IN [i \in 1..Len(d) |-> d[i].kernel]

\* the kernels a host program dispatches, in order
KernelsOf(prog) ==
    LET d == SelectSeq(prog, IsDispatch) IN [i \in 1..Len(d) |-> d[i].kernel]

Upload(obj) == LogE("write", "", obj, NoArgs, TRUE)
ReadBack(obj) == LogE("read", "", obj, NoArgs, TRUE)
Dispatch(src, out, flt) ==
    LogE("ndrange", "kernelConv", "", [src |-> src, out |-> out, flt |-> flt], TRUE)

\* C1: every take that returns true delivers, in every cell of the frame, the
\* frame of the last publish that had completed when the take locked the
\* mutex, and no cell is older than the one the previous successful take of
\* the same mailbox delivered.
C1_TakeDeliversLatest ==
    [][\A s \in AllStreams :
          taken'[s] # taken[s] =>
             /\ taken'[s] = taken[s] + 1
             /\ atLock[s] >= 1
             /\ atLock[s] >= LastTake(s)
             /\ \A i \in 1..FrameLen :
                   /\ delivered'[s][i] = atLock[s]
                   /\ delivered'[s][i] >= delivered[s][i]]_vars

\* two publishes completed before the first take, which delivered the second
C1_Witness ==
    \E s \in AllStreams :
       /\ taken[s] = 1
       /\ lastRet[s]
       /\ \A i \in 1..FrameLen : delivered[s][i] = 2

\* C2: per mailbox the fresh flag is false initially and is true exactly when
\* a publish has completed since the last successful take; a successful take
\* consumes every publish completed before it, so successful takes never
\* outnumber publishes.
C2_FreshIffPublishedSinceTake ==
    \A s \in AllStreams :
       /\ fresh[s] <=> Published(s) > LastTake(s)
       /\ LastTake(s) <= Published(s)
       /\ taken[s] <= LastTake(s)
       /\ taken[s] <= Published(s)

\* two publishes were followed by one successful take; nothing is left over
C2_Witness ==
    \E s \in AllStreams :
       /\ Published(s) = 2
       /\ taken[s] = 1
       /\ dlvAtLock[s] = 2
       /\ ~fresh[s]
       /\ pc = "idle"

\* C3: a take made when no publish has completed since the last successful
\* take returns false, and a take that returns false leaves the caller's
\* buffer, the mailbox's storage and the fresh flags as they were.
C3_EmptyTakeReturnsFalse ==
    [][LET s == tstream IN
       /\ (pc = "take_check" /\ pc' # pc /\ atLock[s] = LastTake(s)) =>
             /\ pc' = "render"
             /\ ~lastRet'[s]
             /\ taken' = taken
       /\ (pc = "take_lock" /\ pc' = "take_check") =>
             /\ mem' = mem
             /\ mbox' = mbox /\ obuf' = obuf /\ fresh' = fresh
       /\ (pc = "take_check" /\ pc' = "render") =>
             /\ ~lastRet'[s]
             /\ mem' = mem
             /\ mbox' = mbox /\ obuf' = obuf /\ fresh' = fresh
             /\ taken' = taken /\ delivered' = delivered]_vars

\* a take that followed a successful take with no publish in between has
\* returned false, the caller's buffer still holding the delivered frame
C3_Witness ==
    \E s \in AllStreams :
       /\ pc = "render"
       /\ tstream = s
       /\ taken[s] >= 1
       /\ ~lastRet[s]
       /\ atLock[s] = dlvAtLock[s]
       /\ mem[obuf[s]].px = delivered[s]

\* C4: the consumer's buffer and the mailbox's storage are never the same
\* memory, and no step of a callback changes the bytes of the consumer's
\* buffer.
C4_ConsumerBufferIsPrivate ==
    [][/\ \A s, t \in AllStreams : mbox[s] # obuf[t] /\ mbox'[s] # obuf'[t]
       /\ (ppc' # ppc \/ pidx' # pidx \/ pubCount' # pubCount) =>
             /\ obuf' = obuf
             /\ \A s \in AllStreams : mem'[obuf[s]] = mem[obuf[s]]]_vars

\* a callback is overwriting the mailbox after a successful take, and the
\* consumer's buffer still holds the frame it was handed
C4_Witness ==
    \E s \in AllStreams :
       /\ taken[s] >= 1
       /\ ppc = "copy"
       /\ pstream = s
       /\ pidx > FrameLen
       /\ mem[obuf[s]].px = delivered[s]
       /\ \A i \in 1..FrameLen : mem[mbox[s]].px[i] > delivered[s][i]

\* C5: in the non-interop pipelines a call of convolve that returns has
\* submitted exactly the upload of the source, then with smoothing the box
\* pass source -> intermediate 1, the box pass intermediate 1 ->
\* intermediate 2 and the Laplacian pass intermediate 2 -> output, without
\* smoothing only the Laplacian pass source -> output, then the read-back of
\* the output; every dispatch carries the bindings of its own pass.
C5_PassSequence ==
    (variant \in {"clc", "clcpp"} /\ Returned) =>
       Submitted =
          IF smoothed
          THEN << Upload("bufferSourceImage"),
                  Dispatch("bufferSourceImage", "bufferInterImage1", "bufferBoxFilter"),
                  Dispatch("bufferInterImage1", "bufferInterImage2", "bufferBoxFilter"),
                  Dispatch("bufferInterImage2", "bufferOutputImage",
                           "bufferLaplacianFilter"),
                  ReadBack("bufferOutputImage") >>
          ELSE << Upload("bufferSourceImage"),
                  Dispatch("bufferSourceImage", "bufferOutputImage",
                           "bufferLaplacianFilter"),
                  ReadBack("bufferOutputImage") >>

\* a call without smoothing has returned after an earlier call with smoothing
\* had left its bindings and written intermediate 2
C5_Witness ==
    /\ variant \in {"clc", "clcpp"}
    /\ Returned
    /\ ~smoothed
    /\ dev["bufferInterImage2"].hist # << "uninit" >>

\* C6: the smoothing flag starts true and the normalisation flag false; each
\* is its initial value flipped once per toggle call, whatever else ran; a
\* toggle returns the new value; and a call made after an even number of
\* toggles dispatches the kernels of the initial mode, after an odd number
\* those of the other mode.
C6_ModeIsToggleParity ==
    /\ variant \in {"clc", "clcpp", "tex"} =>
          /\ smoothed = (toggles % 2 = 0)
          /\ toggles > 0 => toggleRet = smoothed
    /\ variant = "vbo" =>
          /\ rgb_norm = (toggles % 2 = 1)
          /\ toggles > 0 => toggleRet = rgb_norm
    /\ Returned =>
          Dispatched =
             CASE variant = "v1" -> KernelsOf(convolve_v1)
               [] variant = "clc" -> KernelsOf(convolve_clc(toggles % 2 = 0))
               [] variant = "clcpp" -> KernelsOf(convolve_clcpp(toggles % 2 = 0))
               [] variant = "tex" -> KernelsOf(convolve_tex(toggles % 2 = 0))
               [] variant = "vbo" -> KernelsOf(processFrames(toggles % 2 = 1))

\* two toggles later a call has run in the initial mode again
C6_Witness ==
    /\ toggles = 2
    /\ toggleRet = TRUE
    /\ variant \in {"clc", "clcpp", "tex"}
    /\ smoothed
    /\ Returned
    /\ taken["rgb"] >= 2

\* C7: in the interop variants glFinish precedes the acquire, every kernel
\* that writes a shared object is submitted after the acquire and before the
\* release and runs while the compute side owns the objects, a call that
\* returns has submitted the release after its acquire, and outside a call
\* the compute side owns no shared object.
C7_AcquireComputeRelease ==
    Interop(variant) =>
       /\ \A i \in DOMAIN log :
             /\ log[i].op = "acquire" =>
                   /\ \E g \in 1..(i - 1) : log[g].op = "glFinish"
                   /\ \A a \in 1..(i - 1) : log[a].op # "acquire"
             /\ WritesShared(log[i]) =>
                   /\ \E a \in 1..(i - 1) : log[a].op = "acquire" /\ log[a].ok
                   /\ \A r \in 1..(i - 1) : log[r].op # "release"
             /\ log[i].op = "release" =>
                   /\ \E a \in 1..(i - 1) : log[a].op = "acquire"
                   /\ \A r \in 1..(i - 1) : log[r].op # "release"
       /\ Returned =>
             \E a, k, r \in DOMAIN log :
                /\ a < k /\ k < r
                /\ log[a].op = "acquire"
                /\ WritesShared(log[k])
                /\ log[r].op = "release"
       /\ (queue # << >> /\ WritesShared(Head(queue))) => acquired
       /\ pc \notin {"call", "sync", "terminated"} => ~acquired

\* processFrames has returned with normalisation on: the objects were
\* acquired, written and given back
C7_Witness ==
    /\ variant = "vbo"
    /\ rgb_norm
    /\ Returned
    /\ ~acquired
    /\ dev["bufferGLShared0"].hist # << "uninit" >>

\* C8: when convolve or processFrames has returned the queue is empty, and
\* whenever the render thread is outside the call (taking, rendering, idle,
\* handling a key) the queue holds no command of the pipeline, so no kernel
\* runs while the display callback renders and no two frames are in flight.
C8_NothingInFlightAfterReturn ==
    /\ Returned => queue = << >>
    /\ pc \notin {"call", "sync", "terminated"} =>
          \A i \in DOMAIN queue :
             queue[i].op = "write" /\ queue[i].host \in FilterArrays

\* the blocking read-back of a non-interop call has brought the result back
C8_Witness ==
    /\ variant \in {"v1", "clc", "clcpp"}
    /\ Returned
    /\ queue = << >>
    /\ mem[obuf["rgb"]].hist # << >>
    /\ mem[obuf["rgb"]].hist = dev["bufferOutputImage"].hist

\* C9 as stated: a device operation that failed is the last one the call
\* attempted, and the process has terminated.
C9_Original ==
    \A i \in DOMAIN log :
       ~log[i].ok => i = Len(log) /\ pc = "terminated"

\* C9: after a device operation of the call failed the process has
\* terminated, nothing was put on the queue any more and the operation was
\* not attempted again; the only operations attempted after it are the
\* remaining clSetKernelArg calls of the group the C program checks with one
\* chk, and in the C++ programs none.
C9_NoSubmissionAfterFailure ==
    \A i \in DOMAIN log :
       ~log[i].ok =>
          /\ pc = "terminated"
          /\ exitCause = ApiFailure(variant)
          /\ \A j \in (i + 1)..Len(log) :
                /\ variant = "clc"
                /\ log[i].op = "setArg"
                /\ log[j].op = "setArg"
                /\ [log[j] EXCEPT !.ok = FALSE] # log[i]

\* the first clSetKernelArg of a group failed and the next one was made
C9_Witness ==
    /\ variant = "clc"
    /\ pc = "terminated"
    /\ \E i \in DOMAIN log : ~log[i].ok /\ i < Len(log) /\ log[i + 1].ok

NoPlatform == ~env.platform
NoGPU == env.platform /\ ~env.gpu
NoSharing == Interop(variant) /\ env.platform /\ env.gpu /\ ~env.sharing

C11_Original ==
    env.kernels # "ok" =>
       /\ \A i \in DOMAIN created : created[i] \notin KernelSteps
       /\ kargs = [k \in Kernels |-> NoArgs]
       /\ pc = "terminated" => exitCause = "buildLog"

\* what does hold: with kernels.cl absent or broken the constructor never
\* returns, no kernel object exists and no argument is bound
C11_NoKernelFromBadSource ==
    env.kernels # "ok" =>
       /\ pc \in {"boot", "terminated"}
       /\ \A i \in DOMAIN created : created[i] \notin KernelSteps
       /\ kargs = [k \in Kernels |-> NoArgs]
       /\ (env.kernels = "broken" /\ pc = "terminated") => exitCause = "buildLog"

\* kernels.cl was absent, the empty program built, and the process ended at
\* the creation of the first kernel with the API's error alone
C11_Witness ==
    /\ env.kernels = "absent"
    /\ pc = "terminated"
    /\ exitCause = ApiFailure(variant)

\* ------------------------------------------- properties of the kernel runs
Pixels(r) == r.cols * r.rows
Missized(r) == r.kind = "convolve" /\ Len(r.frame) # Pixels(r)

\* C12 as stated: convolve () detects a frame whose byte length differs from
\* width * height, and no upload is submitted from such a frame.
C12_Original == Missized(krun) => krun.uploads = 0

\* a vector one byte too long went through convolve (): the upload was
\* submitted, the first width * height bytes were filtered and the last byte
\* was left as it was
C12_Witness ==
    /\ krun.kind = "convolve"
    /\ Len(krun.frame) = Pixels(krun) + 1
    /\ krun.uploads > 0
    /\ krun.Smoothed # << >>
    /\ krun.Smoothed[Len(krun.frame)] = krun.frame[Len(krun.frame)]

IsConstant(frame) == \A i \in DOMAIN frame : frame[i] = frame[1]
AllZero(frame) == \A i \in DOMAIN frame : frame[i] = 0
ImageAllZero(img) ==
    \A r \in DOMAIN img : \A c \in DOMAIN img[r] : img[r][c] = 0

\* C13: for an image of width and height at least 3 whose pixels all hold
\* one value C in 0..255, one pass of the convolution kernel with the
\* Laplacian weights writes 0 to every pixel, border included, and convolve ()
\* returns an all-zero image in Raw mode and in Smoothed mode.
C13_ConstantImageGivesZero ==
    (/\ krun.kind \in {"convolution", "convolve"}
     /\ krun.cols >= 3 /\ krun.rows >= 3
     /\ Len(krun.frame) = Pixels(krun)
     /\ IsConstant(krun.frame)
     /\ krun.frame[1] \in 0..UInt8Max)
    => /\ krun.pass.filter = "lap" => ImageAllZero(krun.pass.out)
       /\ krun.Raw # << >> => AllZero(krun.Raw)
       /\ krun.Smoothed # << >> => AllZero(krun.Smoothed)

\* a 4 x 3 image of 200s went through convolve () in both modes
C13_Witness ==
    /\ krun.kind = "convolve"
    /\ krun.cols = 4 /\ krun.rows = 3
    /\ IsConstant(krun.frame) /\ krun.frame[1] = 200
    /\ krun.Raw # << >> /\ AllZero(krun.Raw)
    /\ krun.Smoothed # << >> /\ AllZero(krun.Smoothed)

\* the image with its first and last row and column written out once more
PadRow(row) == << row[1] >> \o row \o << row[Len(row)] >>
EdgePadded(img) ==
    LET padded == [r \in 1..Len(img) |-> PadRow(img[r])]
    IN  << padded[1] >> \o padded \o << padded[Len(img)] >>
\* the weighted sum of the 3 x 3 block of a padded image around the pixel in
\* column c and row r (counted from 1) of the image it was made from
PaddedSum(pad, c, r, filter) ==
    LET s[n \in 0..(filterWidth * filterWidth)] ==
            IF n = 0 THEN 0
            ELSE s[n - 1] + pad[r + ((n - 1) \div filterWidth)]
                               [c + ((n - 1) % filterWidth)] * filter[n]
    IN  s[filterWidth * filterWidth]
WeightSum(filter) ==
    LET s[n \in 0..Len(filter)] == IF n = 0 THEN 0 ELSE s[n - 1] + filter[n]
    IN  s[Len(filter)]
Uploaded(r) == WriteImage(r.frame, r.cols, r.rows, 0)

\* C14: a neighbour read outside the image returns the nearest pixel inside
\* it (each coordinate clamped to 0..cols-1, 0..rows-1), never zero and never
\* a pixel from the opposite side: every pixel a pass writes is the stored
\* weighted sum over the edge-replicated image.  For a 1 x 1 source of value
\* v the accumulator is v times the sum of the nine weights, and the
\* Laplacian pass writes 0.
C14_ReadsClampToEdge ==
    (krun.kind = "convolution" /\ krun.pass.filter # "none") =>
       LET img == Uploaded(krun)
           filter == FilterOf(krun.pass.filter)
       IN  /\ \A r \in 1..krun.rows : \A c \in 1..krun.cols :
                krun.pass.out[r][c] =
                   StorePixel(PaddedSum(EdgePadded(img), c, r, filter),
                              krun.neg)
           /\ (krun.cols = 1 /\ krun.rows = 1) =>
                /\ Accumulate(img, 0, 0, filter)
                      = krun.frame[1] * WeightSum(filter)
                /\ krun.pass.filter = "lap" => krun.pass.out[1][1] = 0

\* a box pass over a 3 x 3 image that is 0 but for 128 in its first pixel:
\* the corner reads that pixel four times and stores 4 * 128 / 8 = 64
C14_Witness ==
    /\ krun.kind = "convolution"
    /\ krun.cols = 3 /\ krun.rows = 3
    /\ krun.frame = SpotFrame(9, 0, 128, {1})
    /\ krun.pass.filter = "box"
    /\ krun.pass.out[1][1] = 64

\* some 3 x 3 block lying inside the image holds two different values
NonConstantNeighbourhood(r) ==
    LET img == Uploaded(r)
    IN  \E y \in 2..(r.rows - 1) : \E x \in 2..(r.cols - 1) :
           \E dy \in -1..1 : \E dx \in -1..1 :
              img[y + dy][x + dx] # img[y][x]

\* C15 as stated: for one 8-bit frame holding a non-constant 3 x 3
\* neighbourhood, the image convolve () returns in Raw mode differs from the
\* image it returns for the same frame in Smoothed mode.
C15_Original ==
    (/\ krun.kind = "convolve"
     /\ Len(krun.frame) = Pixels(krun)
     /\ NonConstantNeighbourhood(krun)
     /\ krun.Raw # << >>
     /\ krun.Smoothed # << >>)
    => krun.Raw # krun.Smoothed

\* any two different values of the frame are at least 2 apart
ContrastAtLeastTwo(frame) ==
    \A i \in DOMAIN frame : \A j \in DOMAIN frame :
       frame[i] > frame[j] => frame[i] - frame[j] >= 2

\* C15, amended: the two modes return different images for every frame made
\* of a background and some pixels of a second value at least 2 away from
\* it; and they return the same image for a frame that one box pass leaves
\* as it is.
C15_TwoLevelFramesDiffer ==
    (/\ krun.kind = "convolve"
     /\ Len(krun.frame) = Pixels(krun)
     /\ NonConstantNeighbourhood(krun)
     /\ krun.Raw # << >>
     /\ krun.Smoothed # << >>)
    => /\ ContrastAtLeastTwo(krun.frame) => krun.Raw # krun.Smoothed
       /\ convolution(Uploaded(krun), box_filter, krun.neg) = Uploaded(krun)
             => krun.Raw = krun.Smoothed

\* a 3 x 3 frame that is 0 but for 255 at its centre went through convolve ()
\* in Smoothed mode, then, after a toggle, in Raw mode
C15_Witness ==
    /\ krun.kind = "convolve"
    /\ krun.frame = SpotFrame(9, 0, 255, {5})
    /\ ~krun.smoothed
    /\ krun.uploads = 2
    /\ krun.Raw # << >>
    /\ krun.Smoothed # << >>
    /\ krun.Raw # krun.Smoothed

\* C16: for the work-item (x, y) of a cols x rows grid and the depth d, the
\* point depthTo3D writes is ((x - (cols-1)/2) d / f, (y - (rows-1)/2) d / f,
\* d, 1) with f = 595, at index y * cols + x.  X and Y are compared as
\* fractions over 2f.  On the 640 x 480 grid, pixel (319, 239) with d = 1000
\* gets X = Y = -0.5 * 1000 / 595, between -0.85 and -0.84, and Z = 1000.
C16_DepthTo3DFormula ==
    (krun.kind = "depthTo3D" /\ krun.item # << >>) =>
       LET x == krun.item[1]
           y == krun.item[2]
           d == krun.item[3]
           p == krun.point
       IN  /\ p.idx = y * krun.cols + x
           /\ p.den = 2 * 595
           /\ p.X2 = (2 * x - (krun.cols - 1)) * d
           /\ p.Y2 = (2 * y - (krun.rows - 1)) * d
           /\ p.Z = d
           /\ p.W = 1
           /\ (krun.cols = 640 /\ krun.rows = 480
                 /\ krun.item = << 319, 239, 1000 >>) =>
                /\ p.X2 = -1000 /\ p.Y2 = -1000 /\ p.den = 1190
                /\ -85 * p.den < 100 * p.X2 /\ 100 * p.X2 < -84 * p.den
                /\ p.Z = 1000

\* the work-item (319, 239) of the 640 x 480 grid has run on depth 1000
C16_Witness ==
    /\ krun.kind = "depthTo3D"
    /\ krun.cols = 640 /\ krun.rows = 480
    /\ krun.item = << 319, 239, 1000 >>
    /\ krun.point.idx = 239 * 640 + 319
    /\ krun.point.X2 = -1000
    /\ krun.point.Z = 1000

Min(a, b) == IF a < b THEN a ELSE b

\* C17: each of the nine box weights is 0.125 (one eighth) and their sum is
\* 1.125 (nine eighths), not 1; one box pass over a constant 8-bit image of
\* value C therefore writes min (255, floor (9C / 8)) to every pixel, which
\* is not C for any C in 8..254.
C17_BoxSumsToNineEighths ==
    /\ Len(box_filter) = 9
    /\ \A n \in DOMAIN box_filter : box_filter[n] = 1
    /\ WeightSum(box_filter) = 9
    /\ WeightSum(box_filter) # 8
    /\ (/\ krun.kind = "convolution"
        /\ krun.pass.filter = "box"
        /\ IsConstant(krun.frame))
       => \A r \in 1..krun.rows : \A c \in 1..krun.cols :
             LET C == krun.frame[1]
             IN  /\ krun.pass.out[r][c] = Min(255, (9 * C) \div 8)
                 /\ C \in 8..254 => krun.pass.out[r][c] # C

\* one box pass over a 3 x 3 image of 100s wrote 112 everywhere
C17_Witness ==
    /\ krun.kind = "convolution"
    /\ krun.cols = 3 /\ krun.rows = 3
    /\ IsConstant(krun.frame) /\ krun.frame[1] = 100
    /\ krun.pass.filter = "box"
    /\ \A r \in 1..3 : \A c \in 1..3 : krun.pass.out[r][c] = 112

\* ------------------------------------------------ properties of the locking
\* the driver thread is inside std::copy into the storage of mailbox s
ProducerIn(s) == ppc = "copy" /\ pstream = s
\* the render thread is between the lock of mailbox s and its release: at
\* the flag test, the swap or the conversion, and in the video filters also
\* in the copy-out and in convolve ()
ConsumerIn(s) ==
    /\ tstream = s
    /\ \/ pc = "take_check"
       \/ VideoFilter(variant) /\ pc \in {"copy", "call", "sync"}
\* a step touches mailbox s: its flag, its storage or which block it owns
TouchesMailbox(s) ==
    \/ fresh'[s] # fresh[s]
    \/ mbox'[s] # mbox[s]
    \/ mem'[mbox[s]] # mem[mbox[s]]

\* C18: for each mailbox the producer's copy into the storage and the
\* consumer's read, copy-out or swap of it are never in progress together;
\* each of them runs with the mailbox's lock held by its own thread, and the
\* fresh flag and the storage change only in steps taken with the lock held.
C18_MailboxMutualExclusion ==
    /\ [](\A s \in AllStreams :
             /\ ~(ProducerIn(s) /\ ConsumerIn(s))
             /\ ProducerIn(s) => mutex[s] = "driver"
             /\ ConsumerIn(s) => mutex[s] = "render")
    /\ [][\A s \in AllStreams : TouchesMailbox(s) => mutex[s] # "free"]_vars

\* the driver thread is part-way through its copy while the render thread
\* waits for the same lock
C18_Witness ==
    /\ ppc = "copy"
    /\ pidx > 1
    /\ pc = "take_lock"
    /\ tstream = pstream
    /\ mutex[pstream] = "driver"

\* the render thread leaves getRGB / getDepth / updateRGB for mailbox s
TakeReturns(s) == ConsumerIn(s) /\ ~ConsumerIn(s)' /\ pc' # "terminated"
\* the driver thread leaves the callback of mailbox s
PublishReturns(s) == ProducerIn(s) /\ ~ProducerIn(s)'

\* C19: every publish and every take has released the mailbox's lock when it
\* returns, on the early 'return false' as on success; no thread holds the
\* RGB lock and the depth lock together; a thread waiting for a lock waits
\* for a thread that can take a step, so no execution deadlocks; and with
\* fair scheduling every publish that has started returns (or the process
\* has exited).
C19_LocksReleasedNoDeadlock ==
    /\ [][\A s \in AllStreams :
            /\ TakeReturns(s) => mutex'[s] = "free"
            /\ (TakeReturns(s) /\ lastRet'[s] = FALSE) => mutex'[s] = "free"
            /\ PublishReturns(s) => mutex'[s] = "free"]_vars
    /\ [](\A who \in {"driver", "render"} :
             ~(mutex["rgb"] = who /\ mutex["depth"] = who))
    /\ [](\A s \in AllStreams :
             /\ mutex[s] = "render" =>
                   (ConsumerIn(s) \/ pc = "terminated")
             /\ mutex[s] = "driver" => ProducerIn(s))
    /\ [](Alive =>
             /\ (pc = "take_lock" /\ ~LockFree(tstream)) => ENABLED DriverStep
             /\ (ppc = "lock" /\ ~LockFree(pstream)) => ENABLED RenderStep)
    /\ (ppc # "idle") ~> (ppc = "idle" \/ ~Alive)

\* a take found the mailbox empty and returned false, with the lock free
\* again, while a publish to the same mailbox was waiting for that lock
C19_Witness ==
    /\ pc = "render"
    /\ lastRet[tstream] = FALSE
    /\ taken[tstream] = 0
    /\ mutex[tstream] = "free"
    /\ ppc = "lock"
    /\ pstream = tstream

\* the render thread of a video filter is past the freshness check of
\* getRGB / updateRGB and has not returned: converting, copying, in convolve ()
Filtering ==
    VideoFilter(variant) /\ pc \in {"take_check", "copy", "call", "sync"}
InConvolve == VideoFilter(variant) /\ pc \in {"call", "sync"}

\* C20: in the four video filters the consumer holds the mailbox's lock from
\* the freshness check until convolve () has returned and the flag has been
\* cleared; no step changes the stored frame while it is converted or
\* filtered; and a publish that arrives during convolve () waits for the lock
\* and gets it only once convolve () has returned.
C20_LockHeldThroughConvolve ==
    /\ [](Filtering => mutex["rgb"] = "render")
    /\ [](InConvolve => fresh["rgb"])
    /\ [][(InConvolve /\ pc' = "render") =>
             /\ mutex["rgb"] = "render"
             /\ ~fresh'["rgb"]
             /\ mutex'["rgb"] = "free"]_vars
    /\ [][Filtering => mem'[mbox["rgb"]] = mem[mbox["rgb"]]]_vars
    /\ [](InConvolve /\ ppc # "idle" /\ pstream = "rgb" => ppc = "lock")
    /\ [][(ppc = "lock" /\ ppc' = "copy" /\ pstream = "rgb") =>
             ~Filtering]_vars

\* a second frame arrives while convolve () is at work on the first: the
\* callback waits for the lock the render thread holds
C20_Witness ==
    /\ VideoFilter(variant)
    /\ pc = "call"
    /\ ip > 1
    /\ ppc = "lock"
    /\ pstream = "rgb"
    /\ pubCount["rgb"] = 2
    /\ mutex["rgb"] = "render"

\* ----------------------------------------------- properties of the pipelines
\* C21 as stated: a successful getRGB of a video filter copies exactly
\* width * height bytes of the converted image into the destination and never
\* touches index width * height, one past the end of both.
C21_Original ==
    (VideoFilter(variant) /\ taken["rgb"] >= 1 /\ lastRet["rgb"]) =>
       /\ ~overrun
       /\ CopyCount(FrameLen) = FrameLen

\* getRGB of the clc program has returned true after its copy read and wrote
\* the byte one past the end
C21_Witness ==
    /\ variant = "clc"
    /\ taken["rgb"] >= 1
    /\ lastRet["rgb"]
    /\ overrun
    /\ CopyCount(FrameLen) = FrameLen + 1

\* C22 as stated: in every dispatch the object bound as the kernel's source
\* and the object bound as its output are two different memory objects, and
\* bufferInterImage1 and bufferInterImage2 are different images.
C22_Original ==
    \A i \in DOMAIN log :
       (log[i].op = "ndrange" /\ log[i].ok) =>
          /\ log[i].src # log[i].out
          /\ Handle(variant, "bufferInterImage1")
                # Handle(variant, "bufferInterImage2")

\* the texture program, smoothing on, has enqueued a box pass whose source
\* and output are the one image both members name
C22_Witness ==
    /\ variant = "tex"
    /\ smoothed
    /\ \E i \in DOMAIN log :
          /\ log[i].op = "ndrange" /\ log[i].ok
          /\ log[i].kernel = "kernelConv"
          /\ log[i].src = "bufferInterImage1"
          /\ log[i].out = "bufferInterImage1"

\* a coefficient upload the device has not yet carried out
PendingUpload ==
    \E i \in DOMAIN queue :
       queue[i].op = "write" /\ queue[i].host \in FilterArrays

\* C23 as stated: while the program runs, a coefficient upload is pending
\* only inside the constructor, where its host array still exists; once the
\* constructor has returned no such upload is left in the queue.
C23_Original == (Alive /\ PendingUpload) => CtorRunning

\* the render loop has been entered, the constructor's arrays are gone, and
\* a coefficient upload is still waiting in the queue
C23_Witness ==
    /\ pc = "idle"
    /\ ~CtorRunning
    /\ PendingUpload

\* the pixels of the image a dispatch was made for, as (column, row)
ImagePixels == (0..(krun.cols - 1)) \X (0..(krun.rows - 1))

\* C24: in a dispatch of a kernel that takes rows and cols over a grid at
\* least as large as the image, no work-item with row >= rows or column >=
\* cols stores anything, every pixel of the image is stored exactly once, and
\* the host has bound rows to the height, which grid dimension 1 spans, and
\* cols to the width, which grid dimension 0 spans.
C24_GuardedWrites ==
    (krun.kind = "dispatch" /\ krun.stage = "done") =>
       /\ krun.dims.rows = krun.rows
       /\ krun.dims.cols = krun.cols
       /\ krun.global[1] >= krun.dims.cols
       /\ krun.global[2] >= krun.dims.rows
       /\ \A w \in krun.writes :
             w.item[2] < krun.rows /\ w.item[1] < krun.cols
       /\ \A px \in ImagePixels :
             Cardinality({w \in krun.writes :
                 w.at = StoreAt(krun.kernel, px[2], px[1], krun.cols)}) = 1

\* normalizeRGB over a 4 x 3 image with a grid larger in both dimensions
C24_Witness ==
    /\ krun.kind = "dispatch" /\ krun.stage = "done"
    /\ krun.kernel = "normalizeRGB"
    /\ krun.cols = 4 /\ krun.rows = 3
    /\ krun.global = << 6, 5 >>
    /\ Cardinality(krun.writes) = 12

\* the dispatches the current call has attempted, in order
Dispatches == SelectSeq(log, IsDispatch)

\* the kernel that converts the 8-bit colour source, and that source
NormKernel(v) == IF v = "tex" THEN "kernelNorm" ELSE "kernelRGBA"
RawColour(v) == IF v = "tex" THEN "bufferSourceImage" ELSE "bufferSourceRGB"
\* the objects the host uploads unsigned-integer frames to
RawSources(v) ==
    IF v = "tex" THEN {"bufferSourceImage"}
    ELSE {"bufferSourceRGB", "bufferSourceDepth"}

\* dispatch i reads an object an earlier dispatch of the call has written
ReadsEarlierOutput(d, i) == \E j \in 1..(i - 1) : d[j].out = d[i].src

\* C25 as stated: in the interop programs the first dispatch of a call is
\* the normalisation kernel, and every later dispatch of the call reads an
\* object written earlier in the call and none of the raw sources.
C25_Original ==
    Interop(variant) =>
       LET d == Dispatches IN
       /\ d # << >> => d[1].kernel = NormKernel(variant)
       /\ \A i \in 2..Len(d) :
             /\ d[i].src \notin RawSources(variant)
             /\ ReadsEarlierOutput(d, i)

\* C25: in the interop programs the first dispatch of a call, in either
\* mode, is the normalisation kernel reading the 8-bit colour source; every
\* later colour pass of the call (convolutionGL, normalizeRGB) reads an
\* object written earlier in the call and never a raw source; the point-cloud
\* pass depthTo3D, which follows them, reads the uploaded 16-bit depth frame.
C25_NormalisationFirst ==
    Interop(variant) =>
       LET d == Dispatches IN
       /\ d # << >> =>
             /\ d[1].kernel = NormKernel(variant)
             /\ d[1].src = RawColour(variant)
       /\ \A i \in 2..Len(d) :
             IF d[i].kernel = "kernelDepthTo3D"
             THEN /\ d[i].src = "bufferSourceDepth"
                  /\ i = Len(d)
             ELSE /\ d[i].src \notin RawSources(variant)
                  /\ ReadsEarlierOutput(d, i)

\* both modes have run: the texture program's Raw call has dispatched the
\* Laplacian pass after normalizeImg, or the point-cloud program's call with
\* normalisation has dispatched all three kernels
C25_Witness ==
    /\ Returned
    /\ toggles = 1
    /\ \/ variant = "tex" /\ ~smoothed /\ Len(Dispatches) = 2
       \/ /\ variant = "vbo" /\ rgb_norm /\ Len(Dispatches) = 3
          /\ Dispatches[3].kernel = "kernelDepthTo3D"

\* a channel value that is a number between 0 and 1
InUnit(v) == v.den > 0 /\ 0 <= v.num /\ v.num <= v.den

\* C26 as stated: every channel value a call of the interop programs has
\* written to the shared colour surface lies in [0, 1], whatever the 8-bit
\* frame and the mode.
C26_Original ==
    (krun.kind \in {"convolveGL", "processFrames"} /\ krun.stage = "done") =>
       \A v \in krun.shared : InUnit(v)

\* without smoothing the texture program has written a negative value where
\* a pixel is brighter than its neighbours, and with normalisation the
\* point-cloud program has written 0.f / 0.f for a black pixel
C26_Witness ==
    /\ krun.stage = "done"
    /\ \/ /\ krun.kind = "convolveGL" /\ ~krun.smoothed
          /\ \E v \in krun.shared : v.num < 0
       \/ /\ krun.kind = "processFrames" /\ krun.rgb_norm
          /\ krun.item = << 0, 0, 0 >>
          /\ \E v \in krun.shared : v.den = 0

\* updateFrames of the point-cloud program has returned to drawGLScene
UpdateFramesDone == variant = "vbo" /\ pc = "render"

\* C27 as stated: when updateFrames has returned, processFrames was called in
\* it if getRGB returned true in it, and only if both getRGB and getDepth
\* returned true in it.
C27_Original ==
    UpdateFramesDone =>
       /\ lastRet["rgb"] => log # << >>
       /\ log # << >> =>
             lastRet["rgb"] /\ tstream = "depth" /\ lastRet["depth"]

\* getRGB took a frame, getDepth found nothing new, and updateFrames
\* returned without a call of processFrames
C27_Witness ==
    /\ UpdateFramesDone
    /\ lastRet["rgb"] /\ taken["rgb"] >= 1
    /\ tstream = "depth" /\ ~lastRet["depth"]
    /\ log = << >>
    /\ ~fresh["rgb"]

\* the render loop runs and every mailbox the pipeline needs is fresh
PipelineReady ==
    /\ pc \notin {"boot", "terminated"}
    /\ \A s \in Streams(variant) : fresh[s]

\* calls of the pipeline so far: convolve () is called by each take that
\* returns true, processFrames () after each getDepth that returns true
PipelineRuns == IF variant = "vbo" THEN taken["depth"] ELSE taken["rgb"]

\* C28: with fair scheduling of the threads and of the locks, whenever the
\* render loop is running and every mailbox the pipeline needs is fresh (the
\* RGB mailbox, and in the point-cloud program the depth mailbox too), one
\* more call of convolve () or processFrames () is made later, unless the
\* process exits; and in the point-cloud program a fresh depth frame stays fresh
\* until a poll that also finds a fresh RGB frame hands both to
\* processFrames (), so publishes that keep coming on both streams make both
\* mailboxes fresh at the same poll again and again.
C28_FreshFramesGetProcessed ==
    /\ [][(variant = "vbo" /\ fresh["depth"] /\ ~fresh'["depth"]) =>
             (pc' = "call" /\ lastRet'["rgb"] /\ lastRet'["depth"])]_vars
    /\ \A n \in 0..MaxPublish :
          (PipelineReady /\ PipelineRuns = n) ~> (PipelineRuns > n \/ ~Alive)

\* the point-cloud program: a poll found the first RGB frame and the first
\* depth frame fresh together, and processFrames () has run on them
C28_Witness ==
    /\ variant = "vbo"
    /\ Returned
    /\ taken["depth"] = 1
    /\ dlvAtLock["depth"] = 1
    /\ Published("rgb") >= 1
    /\ \E i \in 1..FrameLen : delivered["rgb"][i] = 1
    /\ toggles = 0

\* resource a was created, and before resource b if b exists
CreatedFirst(a, b) ==
    \A i \in DOMAIN created :
       created[i] = b => \E j \in 1..(i - 1) : created[j] = a
IsCreated(a) == \E i \in DOMAIN created : created[i] = a

\* the CL objects made from a GL object, and the constructor of a program
GLWrappers(v) ==
    IF v = "tex" THEN {"bufferOutputImage"}
    ELSE {"bufferGLShared0", "bufferGLShared1"}
FilterCtor(v) == IF v = "tex" THEN FilterCtor_tex ELSE FilterCtor_vbo

\* every resource the constructor creates exists
Constructed(v) ==
    \A i \in DOMAIN FilterCtor(v) :
       Creates(FilterCtor(v)[i]) => IsCreated(FilterCtor(v)[i])

\* C29: in the interop programs the capture streams are started and initGL
\* has run before the constructor begins; in the constructor the CL context
\* precedes initGLObjects, initGLObjects precedes every CL object made from
\* a GL object, and every other resource follows initGL and the context;
\* the render loop, and with it every take and every call of convolve or
\* processFrames, begins only when the Filter is fully constructed.
C29_StartupOrder ==
    Interop(variant) =>
       /\ CtorRunning =>
             /\ streaming = Streams(variant)
             /\ IsCreated("initGL")
       /\ \A i \in DOMAIN created :
             /\ created[i] # "initGL" => CreatedFirst("initGL", created[i])
             /\ created[i] \notin {"initGL", "context"} =>
                   CreatedFirst("context", created[i])
       /\ CreatedFirst("context", "initGLObjects")
       /\ \A w \in GLWrappers(variant) : CreatedFirst("initGLObjects", w)
       /\ pc \notin {"boot", "terminated"} => Constructed(variant)
       /\ (pc = "boot" /\ ~Constructed(variant)) =>
             /\ log = << >>
             /\ taken = [s \in AllStreams |-> 0]
             /\ \A i \in DOMAIN queue : queue[i].op = "write"
                                        /\ queue[i].host \in FilterArrays

\* the texture program is inside its constructor, between initGLObjects and
\* the CL image made from the texture, and a frame has already been
\* published to the mailbox
C29_Witness ==
    /\ variant = "tex"
    /\ CtorRunning
    /\ IsCreated("initGLObjects")
    /\ ~IsCreated("bufferOutputImage")
    /\ Published("rgb") >= 1
    /\ fresh["rgb"]

\* the resources still live after the first n releases
LiveAfter(n) ==
    {krun.live[i] : i \in DOMAIN krun.live} \
       {krun.released[j] : j \in 1..n}

\* where a resource stands in the constructor's order
AcquiredAt(r) ==
    CHOOSE i \in DOMAIN Acquisitions(variant) : Acquisitions(variant)[i] = r

\* every release is the first of its resource, which the constructor made
ReleasedOnce ==
    /\ \A i \in DOMAIN krun.released :
          /\ \E k \in DOMAIN krun.live : krun.live[k] = krun.released[i]
          /\ \A j \in 1..(i - 1) : krun.released[j] # krun.released[i]
    /\ Len(krun.released) = Len(Destructor(variant)) =>
          LiveAfter(Len(krun.released)) = {}

\* no release gives up the object a live resource was created from
NoLiveDependent ==
    \A i \in DOMAIN krun.released :
       \A r \in LiveAfter(i) : CreatedFrom(r) # krun.released[i]

IsMemObject(r) == r \notin (KernelSteps \cup {"program", "sampler", "queue", "context"})

====
